---- MODULE Spec2Model ----
(***************************************************************************)
(* A model of the Oscript codec of itcomusic/ot (package pkg/oscript):     *)
(* the byte-wise scanner, Compact, the reflective encoder (Marshal) and    *)
(* the reflective decoder (Unmarshal).  Bytes are integers 0..255 and a    *)
(* document is a sequence of bytes.                                        *)
(***************************************************************************)
EXTENDS Integers, Sequences, FiniteSets, TLC

VARIABLES
    phase,      \* position of the driver: which call is next
    src,        \* the input bytes handed to checkValid / Compact / Unmarshal
    fed,        \* number of chunks the caller has written into src
    scan,       \* the scanner used by checkValid (scanner struct)
    out0,       \* contents of the bytes.Buffer before the Compact call
    out,        \* the bytes.Buffer after the Compact call
    out2,       \* bytes.Buffer of the second Compact call
    cerr,       \* error returned by the last Compact / Unmarshal call
    val,        \* the Go value handed to Marshal
    dst,        \* the destination value handed to Unmarshal
    dst0,       \* the destination as it was before the Unmarshal call
    hooks,      \* byte slices received by UnmarshalOscript hooks, in call order
    enc,        \* the Encoder of the stream driver, with its io.Writer
    dec,        \* the Decoder of the stream drivers, with its io.Reader
    toks,       \* the Tokens the Token calls have returned, in call order
    more,       \* what the last More call returned
    heap,       \* the Category structs, Data arrays and value lists allocated
    cache,      \* CacheCategory.cat: display name -> *Category
    attrs,      \* the attributes handed to the last Category.Set call
    encoderCache, \* encoderCache: reflect.Type -> encoderFunc
    fieldCache, \* fieldCache: reflect.Type -> []field
    gor,        \* the goroutines: their call stacks and what they returned
    funcs       \* the indirect funcs created by typeEncoder: wg and f of each

\* the variables of the category drivers and of the goroutine drivers
catVars == <<heap, cache, attrs>>
goVars == <<encoderCache, fieldCache, gor, funcs>>

vars == <<phase, src, fed, scan, out0, out, out2, cerr, val, dst, dst0, hooks, enc, dec,
          toks, more, heap, cache, attrs, encoderCache, fieldCache, gor, funcs>>

\* no category was allocated or stored, no goroutine runs and the caches of
\* the encoder are empty
NoCategories == heap = <<>> /\ cache = <<>> /\ attrs = <<>>
NoGoroutines == encoderCache = <<>> /\ fieldCache = <<>> /\ gor = <<>> /\ funcs = <<>>

(***************************************************************************)
(* Bytes.                                                                  *)
(***************************************************************************)
\* the printable ASCII characters from the space (32) to the tilde (126); the
\* place of the grave accent (96), which no string of the model holds, is empty
Printable ==
    <<
      " ", "!", "\"", "#", "$", "%", "&", "'", "(", ")", "*", "+", ",", "-", ".", "/",
      "0", "1", "2", "3", "4", "5", "6", "7", "8", "9", ":", ";", "<", "=", ">", "?",
      "@", "A", "B", "C", "D", "E", "F", "G", "H", "I", "J", "K", "L", "M", "N", "O",
      "P", "Q", "R", "S", "T", "U", "V", "W", "X", "Y", "Z", "[", "\\", "]", "^", "_",
      "", "a", "b", "c", "d", "e", "f", "g", "h", "i", "j", "k", "l", "m", "n", "o",
      "p", "q", "r", "s", "t", "u", "v", "w", "x", "y", "z", "{", "|", "}", "~"
    >>
\* the byte of a character
OrdOf(table) ==
    [c \in {table[i] : i \in DOMAIN table} \cup {"\t", "\n", "\r"} |->
        IF c = "\t" THEN 9 ELSE IF c = "\n" THEN 10 ELSE IF c = "\r" THEN 13
        ELSE 31 + CHOOSE i \in DOMAIN table : table[i] = c]
Ord == OrdOf(Printable)

\* B(<<"A", "<">>) is the byte sequence of the characters.
B(chars) == [i \in DOMAIN chars |-> Ord[chars[i]]]
\* s between two of the bytes q
Enclose(q, s) == q \o s \o q

\* '0' is 48, '9' 57, 'A' 65, 'F' 70, 'a' 97 and 'f' 102
IsDigit(c) == 48 <= c /\ c <= 57
IsDigit19(c) == 49 <= c /\ c <= 57
IsHex(c) == IsDigit(c) \/ (97 <= c /\ c <= 102) \/ (65 <= c /\ c <= 70)

\* hex[n] of encode.go: the lower-case hexadecimal digit of n (0..15)
hex(n) == IF n < 10 THEN Ord["0"] + n ELSE Ord["a"] + (n - 10)

\* s[a:b] of Go, with 0-based a (inclusive) and b (exclusive)
Slice(s, a, b) == IF b <= a THEN <<>> ELSE SubSeq(s, a + 1, b)

(***************************************************************************)
(* Scanner (scanner.go).                                                   *)
(***************************************************************************)
scanContinue == 0
scanBeginLiteral == 1
scanBeginObject == 2
scanBeginObjectKey == 3
scanObjectKey == 4
scanObjectValue == 5
scanEndObject == 6
scanBeginArray == 7
scanArrayValue == 8
scanEndArray == 9
scanSkipSpace == 10
scanEnd == 11
scanError == 12

parseObjectStart == 0
parseObjectKey == 1
parseObjectValue == 2
parseArrayValue == 3

\* the nil error
NoErr == [kind |-> "nil", msg |-> "", c |-> 0, off |-> 0]
\* &SyntaxError{"invalid character " + quoteChar(c) + " " + context, s.bytes}
SyntaxErr(context, c, off) == [kind |-> "syntax", msg |-> context, c |-> c, off |-> off]

\* a freshly declared scanner{} after reset()
reset(s) == [step |-> "stateBeginValue", endTop |-> FALSE, parseState |-> <<>>,
             err |-> NoErr, bytes |-> s.bytes]
ZeroScanner == [step |-> "nil", endTop |-> FALSE, parseState |-> <<>>,
                err |-> NoErr, bytes |-> 0]

\* result of one transition: the scanner after it and the opcode returned
R(s, op) == [s |-> s, op |-> op]

isSpace(c) == c \in {32, 9, 13, 10}

\* error without the switch to the error state
errorStay(s, c, context) ==
    R([s EXCEPT !.err = SyntaxErr(context, c, s.bytes)], scanError)

error(s, c, context) ==
    R([s EXCEPT !.step = "stateError", !.err = SyntaxErr(context, c, s.bytes)], scanError)

pushParseState(s, p) == [s EXCEPT !.parseState = Append(@, p)]

\* popParseState that leaves the stack as it is
popParseStateKeep(s) ==
    LET n == Len(s.parseState) - 1
    IN IF n = 0 THEN [s EXCEPT !.step = "stateEndTop", !.endTop = TRUE]
       ELSE [s EXCEPT !.step = "stateEndValue"]

popParseState(s) ==
    LET n == Len(s.parseState) - 1
        s1 == [s EXCEPT !.parseState = SubSeq(@, 1, n)]
    IN IF n = 0 THEN [s1 EXCEPT !.step = "stateEndTop", !.endTop = TRUE]
       ELSE [s1 EXCEPT !.step = "stateEndValue"]

SetTop(ps, p) == [ps EXCEPT ![Len(ps)] = p]

\* stateEndTop that complains at once
stateEndTopAtOnce(s, c) ==
    IF ~isSpace(c) THEN error(s, c, "after top-level value") ELSE R(s, scanEnd)

stateEndTop(s, c) ==
    IF ~isSpace(c)
    THEN R(error(s, c, "after top-level value").s, scanEnd)
    ELSE R(s, scanEnd)

stateEndValue(s, c) ==
    LET n == Len(s.parseState) IN
    IF n = 0
    THEN stateEndTop([s EXCEPT !.step = "stateEndTop", !.endTop = TRUE], c)
    ELSE IF c <= Ord[" "] /\ isSpace(c)
    THEN R([s EXCEPT !.step = "stateEndValue"], scanSkipSpace)
    ELSE LET ps == s.parseState[n] IN
         CASE ps = parseObjectKey ->
                IF c = Ord["="]
                THEN R([s EXCEPT !.parseState = SetTop(@, parseObjectValue),
                                 !.step = "stateBeginValue"], scanObjectKey)
                ELSE error(s, c, "after object key")
           [] ps = parseObjectValue ->
                IF c = Ord[","]
                THEN R([s EXCEPT !.parseState = SetTop(@, parseObjectKey),
                                 !.step = "stateBeginString"], scanObjectValue)
                ELSE IF c = Ord[">"]
                THEN R(popParseState(s), scanEndObject)
                ELSE error(s, c, "after object key:value pair")
           [] ps = parseArrayValue ->
                IF c = Ord[","]
                THEN R([s EXCEPT !.step = "stateBeginValue"], scanArrayValue)
                ELSE IF c = Ord["}"]
                THEN R(popParseState(s), scanEndArray)
                ELSE error(s, c, "after array element")
           [] OTHER -> error(s, c, "")

stateBeginValue(s, c) ==
    IF c <= Ord[" "] /\ isSpace(c) THEN R(s, scanSkipSpace)
    ELSE CASE c = Ord["A"] ->
                R(pushParseState([s EXCEPT !.step = "stateBeginObject"], parseObjectStart),
                  scanBeginObject)
           [] c = Ord["D"] -> R([s EXCEPT !.step = "stateInDate"], scanBeginLiteral)
           [] c = Ord["E"] -> R([s EXCEPT !.step = "stateBeginError"], scanBeginLiteral)
           [] c = Ord["{"] ->
                R(pushParseState([s EXCEPT !.step = "stateBeginValueOrEmpty"], parseArrayValue),
                  scanBeginArray)
           [] c = Ord["'"] -> R([s EXCEPT !.step = "stateInString"], scanBeginLiteral)
           [] c = Ord["-"] -> R([s EXCEPT !.step = "stateLNeg"], scanBeginLiteral)
           [] c = Ord["G"] -> R([s EXCEPT !.step = "stateG"], scanBeginLiteral)
           [] c = Ord["L"] -> R([s EXCEPT !.step = "stateL"], scanBeginLiteral)
           [] c = Ord["t"] -> R([s EXCEPT !.step = "stateT"], scanBeginLiteral)
           [] c = Ord["f"] -> R([s EXCEPT !.step = "stateF"], scanBeginLiteral)
           [] c = Ord["?"] -> R([s EXCEPT !.step = "stateEndValue"], scanBeginLiteral)
           [] IsDigit(c) -> R([s EXCEPT !.step = "stateL1"], scanBeginLiteral)
           [] OTHER -> error(s, c, "looking for beginning of value")

stateInDate(s, c) ==
    IF c = Ord["/"] \/ c = Ord[":"] \/ IsDigit(c) THEN R(s, scanContinue)
    ELSE stateEndValue(s, c)

stateBeginError(s, c) ==
    IF IsDigit(c) THEN R([s EXCEPT !.step = "stateInError"], scanContinue)
    ELSE error(s, c, "looking for beginning of error syntax")

stateInError(s, c) ==
    IF IsDigit(c) THEN R(s, scanContinue) ELSE stateEndValue(s, c)

stateBeginObject(s, c) ==
    IF c = Ord["<"] THEN R([s EXCEPT !.step = "stateBeginObjectBracket"], scanContinue)
    ELSE error(s, c, "looking for beginning of object syntax")

stateBeginObjectBracket(s, c) ==
    IF c = Ord["1"] THEN R([s EXCEPT !.step = "stateBeginObject1"], scanContinue)
    ELSE error(s, c, "looking for beginning of object syntax")

stateBeginObject1(s, c) ==
    IF c = Ord[","] THEN R([s EXCEPT !.step = "stateBeginObjectComma"], scanContinue)
    ELSE error(s, c, "looking for beginning of object syntax")

\* stateBeginObjectComma without the test of the byte
stateBeginObjectCommaAny(s, c) ==
    R([s EXCEPT !.step = "stateBeginStringOrEmpty"], scanBeginObjectKey)

stateBeginObjectComma(s, c) ==
    IF c = Ord["?"] \/ c = Ord["N"]
    THEN R([s EXCEPT !.step = "stateBeginStringOrEmpty"], scanBeginObjectKey)
    ELSE error(s, c, "looking for beginning of object syntax")

stateBeginStringOrEmpty(s, c) ==
    CASE c = Ord[","] ->
            R([s EXCEPT !.step = "stateBeginString",
                        !.parseState = SetTop(@, parseObjectKey)], scanBeginObjectKey)
      [] c = Ord[">"] ->
            stateEndValue([s EXCEPT !.parseState = SetTop(@, parseObjectValue)], c)
      [] OTHER -> error(s, c, "looking for beginning of object syntax")

stateBeginValueOrEmpty(s, c) ==
    IF c <= Ord[" "] /\ isSpace(c) THEN R(s, scanSkipSpace)
    ELSE IF c = Ord["}"] THEN stateEndValue(s, c)
    ELSE stateBeginValue(s, c)

stateBeginString(s, c) ==
    IF c <= Ord[" "] /\ isSpace(c) THEN R(s, scanSkipSpace)
    ELSE IF c = Ord["'"] THEN R([s EXCEPT !.step = "stateInString"], scanBeginLiteral)
    ELSE error(s, c, "looking for beginning of object key string")

stateInString(s, c) ==
    IF c = Ord["'"] THEN R([s EXCEPT !.step = "stateEndValue"], scanContinue)
    ELSE IF c = Ord["\\"] THEN R([s EXCEPT !.step = "stateInStringEsc"], scanContinue)
    ELSE R(s, scanContinue)

stateInStringEsc(s, c) ==
    IF c \in {Ord["b"], Ord["f"], Ord["n"], Ord["r"], Ord["t"], Ord["\\"], Ord["/"],
              Ord["\""], Ord["'"]}
    THEN R([s EXCEPT !.step = "stateInString"], scanContinue)
    ELSE IF c = Ord["u"] THEN R([s EXCEPT !.step = "stateInStringEscU"], scanContinue)
    ELSE error(s, c, "in string escape code")

stateInStringEscU(s, c) ==
    IF IsHex(c) THEN R([s EXCEPT !.step = "stateInStringEscU1"], scanContinue)
    ELSE error(s, c, "in \\u hexadecimal character escape")

stateInStringEscU1(s, c) ==
    IF IsHex(c) THEN R([s EXCEPT !.step = "stateInStringEscU12"], scanContinue)
    ELSE error(s, c, "in \\u hexadecimal character escape")

stateInStringEscU12(s, c) ==
    IF IsHex(c) THEN R([s EXCEPT !.step = "stateInStringEscU123"], scanContinue)
    ELSE error(s, c, "in \\u hexadecimal character escape")

stateInStringEscU123(s, c) ==
    IF IsHex(c) THEN R([s EXCEPT !.step = "stateInString"], scanContinue)
    ELSE error(s, c, "in \\u hexadecimal character escape")

stateLNeg(s, c) ==
    IF c = Ord["0"] THEN R([s EXCEPT !.step = "stateEndValue"], scanContinue)
    ELSE IF IsDigit19(c) THEN R([s EXCEPT !.step = "stateL1"], scanContinue)
    ELSE error(s, c, "in numeric literal")

stateL(s, c) ==
    IF c = Ord["-"] THEN R([s EXCEPT !.step = "stateLNeg"], scanContinue)
    ELSE IF c = Ord["0"] THEN R([s EXCEPT !.step = "stateEndValue"], scanContinue)
    ELSE IF IsDigit19(c) THEN R([s EXCEPT !.step = "stateL1"], scanContinue)
    ELSE error(s, c, "in numeric literal")

stateL1(s, c) ==
    IF IsDigit(c) THEN R([s EXCEPT !.step = "stateL1"], scanContinue)
    ELSE stateEndValue(s, c)

stateESign(s, c) ==
    IF IsDigit(c) THEN R([s EXCEPT !.step = "stateE0"], scanContinue)
    ELSE error(s, c, "in exponent of numeric literal")

stateE(s, c) ==
    IF c = Ord["+"] \/ c = Ord["-"] THEN R([s EXCEPT !.step = "stateESign"], scanContinue)
    ELSE stateESign(s, c)

stateE0(s, c) ==
    IF IsDigit(c) THEN R(s, scanContinue) ELSE stateEndValue(s, c)

stateDot(s, c) ==
    IF IsDigit(c) THEN R([s EXCEPT !.step = "stateDot0"], scanContinue)
    ELSE error(s, c, "after decimal point in numeric literal")

stateDot0(s, c) ==
    IF IsDigit(c) THEN R(s, scanContinue)
    ELSE IF c = Ord["e"] \/ c = Ord["E"] THEN R([s EXCEPT !.step = "stateE"], scanContinue)
    ELSE stateEndValue(s, c)

stateG0(s, c) ==
    IF c = Ord["."] THEN R([s EXCEPT !.step = "stateDot"], scanContinue)
    ELSE IF c = Ord["e"] \/ c = Ord["E"] THEN R([s EXCEPT !.step = "stateE"], scanContinue)
    ELSE stateEndValue(s, c)

stateG1(s, c) ==
    IF IsDigit(c) THEN R([s EXCEPT !.step = "stateG1"], scanContinue)
    ELSE stateG0(s, c)

stateGNeg(s, c) ==
    IF c = Ord["0"] THEN R([s EXCEPT !.step = "stateG0"], scanContinue)
    ELSE IF IsDigit19(c) THEN R([s EXCEPT !.step = "stateG1"], scanContinue)
    ELSE error(s, c, "in numeric literal")

stateG(s, c) ==
    IF c = Ord["-"] THEN R([s EXCEPT !.step = "stateGNeg"], scanContinue)
    ELSE IF c = Ord["0"] THEN R([s EXCEPT !.step = "stateG0"], scanContinue)
    ELSE IF IsDigit19(c) THEN R([s EXCEPT !.step = "stateG1"], scanContinue)
    ELSE error(s, c, "in numeric literal")

\* one-letter continuation states of the literals true and false
ExpectByte(s, c, want, next, context) ==
    IF c = Ord[want] THEN R([s EXCEPT !.step = next], scanContinue)
    ELSE error(s, c, context)

stateT(s, c) == ExpectByte(s, c, "r", "stateTr", "in literal true (expecting 'r')")
stateTr(s, c) == ExpectByte(s, c, "u", "stateTru", "in literal true (expecting 'u')")
stateTru(s, c) == ExpectByte(s, c, "e", "stateEndValue", "in literal true (expecting 'e')")
stateF(s, c) == ExpectByte(s, c, "a", "stateFa", "in literal false (expecting 'a')")
stateFa(s, c) == ExpectByte(s, c, "l", "stateFal", "in literal false (expecting 'l')")
stateFal(s, c) == ExpectByte(s, c, "s", "stateFals", "in literal false (expecting 's')")
stateFals(s, c) == ExpectByte(s, c, "e", "stateEndValue", "in literal false (expecting 'e')")

stateError(s, c) == R(s, scanError)

\* scan.step(&scan, c): the call through the successor-function pointer
step(s, c) ==
    CASE s.step = "stateBeginValue" -> stateBeginValue(s, c)
      [] s.step = "stateInDate" -> stateInDate(s, c)
      [] s.step = "stateBeginError" -> stateBeginError(s, c)
      [] s.step = "stateInError" -> stateInError(s, c)
      [] s.step = "stateBeginObject" -> stateBeginObject(s, c)
      [] s.step = "stateBeginObjectBracket" -> stateBeginObjectBracket(s, c)
      [] s.step = "stateBeginObject1" -> stateBeginObject1(s, c)
      [] s.step = "stateBeginObjectComma" -> stateBeginObjectComma(s, c)
      [] s.step = "stateBeginStringOrEmpty" -> stateBeginStringOrEmpty(s, c)
      [] s.step = "stateBeginValueOrEmpty" -> stateBeginValueOrEmpty(s, c)
      [] s.step = "stateBeginString" -> stateBeginString(s, c)
      [] s.step = "stateEndValue" -> stateEndValue(s, c)
      [] s.step = "stateEndTop" -> stateEndTop(s, c)
      [] s.step = "stateInString" -> stateInString(s, c)
      [] s.step = "stateInStringEsc" -> stateInStringEsc(s, c)
      [] s.step = "stateInStringEscU" -> stateInStringEscU(s, c)
      [] s.step = "stateInStringEscU1" -> stateInStringEscU1(s, c)
      [] s.step = "stateInStringEscU12" -> stateInStringEscU12(s, c)
      [] s.step = "stateInStringEscU123" -> stateInStringEscU123(s, c)
      [] s.step = "stateLNeg" -> stateLNeg(s, c)
      [] s.step = "stateL" -> stateL(s, c)
      [] s.step = "stateL1" -> stateL1(s, c)
      [] s.step = "stateGNeg" -> stateGNeg(s, c)
      [] s.step = "stateG" -> stateG(s, c)
      [] s.step = "stateG0" -> stateG0(s, c)
      [] s.step = "stateG1" -> stateG1(s, c)
      [] s.step = "stateDot" -> stateDot(s, c)
      [] s.step = "stateDot0" -> stateDot0(s, c)
      [] s.step = "stateE" -> stateE(s, c)
      [] s.step = "stateESign" -> stateESign(s, c)
      [] s.step = "stateE0" -> stateE0(s, c)
      [] s.step = "stateT" -> stateT(s, c)
      [] s.step = "stateTr" -> stateTr(s, c)
      [] s.step = "stateTru" -> stateTru(s, c)
      [] s.step = "stateF" -> stateF(s, c)
      [] s.step = "stateFa" -> stateFa(s, c)
      [] s.step = "stateFal" -> stateFal(s, c)
      [] s.step = "stateFals" -> stateFals(s, c)
      [] OTHER -> stateError(s, c)

\* scanner.eof
eof(s) ==
    IF s.err # NoErr THEN R(s, scanError)
    ELSE IF s.endTop THEN R(s, scanEnd)
    ELSE LET stepped(s1) ==
                 IF s1.endTop THEN R(s1, scanEnd)
                 ELSE IF s1.err = NoErr
                 THEN R([s1 EXCEPT !.err = SyntaxErr("unexpected end of Oscript input",
                                                     0, s1.bytes)],
                        scanError)
                 ELSE R(s1, scanError)
         IN stepped(step(s, Ord[" "]).s)

\* the loop of checkValid from index i (1-based) on: scan.bytes++ then step
RECURSIVE checkValidLoop(_, _, _)
checkValidLoop(data, i, s) ==
    IF i > Len(data) THEN R(s, scanContinue)
    ELSE LET stepped(r) == IF r.op = scanError THEN r
                           ELSE checkValidLoop(data, i + 1, r.s)
         IN stepped(step([s EXCEPT !.bytes = @ + 1], data[i]))

\* checkValid(data, scan): the scanner after the call and the error returned
checkValid(data, s) ==
    LET atEof(e) == IF e.op = scanError THEN [s |-> e.s, err |-> e.s.err]
                    ELSE [s |-> e.s, err |-> NoErr]
        scanned(r) == IF r.op = scanError THEN [s |-> r.s, err |-> r.s.err]
                      ELSE atEof(eof(r.s))
    IN scanned(checkValidLoop(data, 1, reset(s)))

Valid(data) == checkValid(data, ZeroScanner).err = NoErr

(***************************************************************************)
(* Compact (indent.go).                                                    *)
(***************************************************************************)
\* src[i+2]&^1 == 0xA8
IsSepTail(b) == b = 168 \/ b = 169

\* compactStep without "start = i + 3" after the escape is written
compactStepKeepStart(data, st, i) ==
    LET c == data[i + 1]
        sep == /\ c = 226
               /\ i + 2 < Len(data)
               /\ data[i + 2] = 128
               /\ IsSepTail(data[i + 3])
        dst1 == IF sep
                THEN (IF st.start < i THEN st.dst \o Slice(data, st.start, i) ELSE st.dst)
                     \o B(<<"\\", "u", "2", "0", "2">>) \o <<hex(data[i + 3] % 16)>>
                ELSE st.dst
        start1 == IF sep THEN i ELSE st.start
        stepped(r) ==
            IF r.op >= scanSkipSpace
            THEN IF r.op = scanError
                 THEN [scan |-> r.s, start |-> start1, dst |-> dst1, brk |-> TRUE]
                 ELSE [scan |-> r.s,
                       start |-> i + 1,
                       dst |-> IF start1 < i THEN dst1 \o Slice(data, start1, i) ELSE dst1,
                       brk |-> FALSE]
            ELSE [scan |-> r.s, start |-> start1, dst |-> dst1, brk |-> FALSE]
    IN stepped(step(st.scan, c))

\* compactStep that copies skipped bytes too ("start = i" instead of "i + 1")
compactStepKeepSpace(data, st, i) ==
    LET c == data[i + 1]
        sep == /\ c = 226
               /\ i + 2 < Len(data)
               /\ data[i + 2] = 128
               /\ IsSepTail(data[i + 3])
        dst1 == IF sep
                THEN (IF st.start < i THEN st.dst \o Slice(data, st.start, i) ELSE st.dst)
                     \o B(<<"\\", "u", "2", "0", "2">>) \o <<hex(data[i + 3] % 16)>>
                ELSE st.dst
        start1 == IF sep THEN i + 3 ELSE st.start
        stepped(r) ==
            IF r.op >= scanSkipSpace
            THEN IF r.op = scanError
                 THEN [scan |-> r.s, start |-> start1, dst |-> dst1, brk |-> TRUE]
                 ELSE [scan |-> r.s,
                       start |-> i,
                       dst |-> IF start1 < i THEN dst1 \o Slice(data, start1, i) ELSE dst1,
                       brk |-> FALSE]
            ELSE [scan |-> r.s, start |-> start1, dst |-> dst1, brk |-> FALSE]
    IN stepped(step(st.scan, c))

\* the loop body of compact for the 0-based index i; st = [scan, start, dst, brk]
compactStep(data, st, i) ==
    LET c == data[i + 1]
        sep == /\ c = 226
               /\ i + 2 < Len(data)
               /\ data[i + 2] = 128
               /\ IsSepTail(data[i + 3])
        dst1 == IF sep
                THEN (IF st.start < i THEN st.dst \o Slice(data, st.start, i) ELSE st.dst)
                     \o B(<<"\\", "u", "2", "0", "2">>) \o <<hex(data[i + 3] % 16)>>
                ELSE st.dst
        start1 == IF sep THEN i + 3 ELSE st.start
        stepped(r) ==
            IF r.op >= scanSkipSpace
            THEN IF r.op = scanError
                 THEN [scan |-> r.s, start |-> start1, dst |-> dst1, brk |-> TRUE]
                 ELSE [scan |-> r.s,
                       start |-> i + 1,
                       dst |-> IF start1 < i THEN dst1 \o Slice(data, start1, i) ELSE dst1,
                       brk |-> FALSE]
            ELSE [scan |-> r.s, start |-> start1, dst |-> dst1, brk |-> FALSE]
    IN stepped(step(st.scan, c))

RECURSIVE compactLoop(_, _, _)
compactLoop(data, st, i) ==
    IF i >= Len(data) \/ st.brk THEN st
    ELSE compactLoop(data, compactStep(data, st, i), i + 1)

\* compact without dst.Truncate(origLen) on the error path
compactNoTruncate(buf, data) ==
    LET atEof(st, e) ==
            IF e.op = scanError
            THEN [dst |-> st.dst, err |-> e.s.err]
            ELSE [dst |-> IF st.start < Len(data)
                          THEN st.dst \o Slice(data, st.start, Len(data))
                          ELSE st.dst,
                  err |-> NoErr]
        scanned(st) == atEof(st, eof(st.scan))
    IN scanned(compactLoop(data,
                [scan |-> reset(ZeroScanner), start |-> 0, dst |-> buf, brk |-> FALSE], 0))

\* compact(dst, src): the buffer after the call and the error returned
compact(buf, data) ==
    LET origLen == Len(buf)
        atEof(st, e) ==
            IF e.op = scanError
            THEN [dst |-> SubSeq(st.dst, 1, origLen), err |-> e.s.err]
            ELSE [dst |-> IF st.start < Len(data)
                          THEN st.dst \o Slice(data, st.start, Len(data))
                          ELSE st.dst,
                  err |-> NoErr]
        scanned(st) == atEof(st, eof(st.scan))
    IN scanned(compactLoop(data,
                [scan |-> reset(ZeroScanner), start |-> 0, dst |-> buf, brk |-> FALSE], 0))

Compact(buf, data) == compact(buf, data)

(***************************************************************************)
(* Go types and values as reflect sees them.  A type is a record with its  *)
(* kind k; a value is a record with its type t and the payload of that     *)
(* kind.  Pointers own what they point to (no aliasing, no cycles).        *)
(***************************************************************************)
BoolT == [k |-> "bool"]
IntT(bits) == [k |-> "int", bits |-> bits]
\* uint8 (byte), uint16, ...
UintT(bits) == [k |-> "uint", bits |-> bits]
StringT == [k |-> "string"]
TimeT == [k |-> "time"]
ChanT == [k |-> "chan"]
\* float32 and float64
FloatT(bits) == [k |-> "float", bits |-> bits]
IfaceT == [k |-> "iface"]
SliceT(e) == [k |-> "slice", elem |-> e]
ArrayT(n, e) == [k |-> "array", n |-> n, elem |-> e]
MapT(key, e) == [k |-> "map", key |-> key, elem |-> e]
PtrT(e) == [k |-> "ptr", elem |-> e]
\* um: *T has an UnmarshalOscript method
StructT(name, fields, um) == [k |-> "struct", name |-> name, fields |-> fields, um |-> um]
\* a struct field: its Go name, its `oscript:"..."` tag and its type
SF(goName, tag, typ) == [goName |-> goName, tag |-> tag, typ |-> typ, anonymous |-> FALSE]
\* an embedded (anonymous) field: its Go name is the name of its type
Embedded(goName, tag, typ) == [SF(goName, tag, typ) EXCEPT !.anonymous = TRUE]
NoTag == [name |-> <<>>, dash |-> FALSE, omitempty |-> FALSE, public |-> FALSE]
Tag(name) == [NoTag EXCEPT !.name = name]
DashTag == [NoTag EXCEPT !.dash = TRUE]

\* type unmarshalerText struct { A, B string }, with MarshalText and
\* (*unmarshalerText).UnmarshalText
TextT == StructT("unmarshalerText", <<SF(<<65>>, NoTag, StringT), SF(<<66>>, NoTag, StringT)>>, FALSE)
TextV(a, b) == [t |-> TextT, f |-> <<[t |-> StringT, s |-> a], [t |-> StringT, s |-> b]>>]
\* t.Implements(textMarshalerType): unmarshalerText and time.Time have
\* MarshalText with a value receiver, so their pointers have it too
ImplementsText(t) == t \in {TextT, TimeT, PtrT(TextT), PtrT(TimeT)}
\* reflect.PtrTo(t).Implements(textUnmarshalerType): UnmarshalText has a
\* pointer receiver
ImplementsTextUnmarshaler(t) == t \in {TextT, TimeT}

\* type FileAttr struct { NodeID int64 `oscript:"-"`; Created, Modified time.Time
\* `oscript:"CreatedDate"`, `oscript:"ModifiedDate"`; Name string `oscript:"Name"`;
\* Size int64 `oscript:"DataForkSize"` }
FileAttr ==
    StructT("FileAttr",
            <<SF(B(<<"N", "o", "d", "e", "I", "D">>), DashTag, IntT(64)),
              SF(B(<<"C", "r", "e", "a", "t", "e", "d">>),
                 Tag(B(<<"C", "r", "e", "a", "t", "e", "d", "D", "a", "t", "e">>)), TimeT),
              SF(B(<<"M", "o", "d", "i", "f", "i", "e", "d">>),
                 Tag(B(<<"M", "o", "d", "i", "f", "i", "e", "d", "D", "a", "t", "e">>)), TimeT),
              SF(B(<<"N", "a", "m", "e">>), Tag(B(<<"N", "a", "m", "e">>)), StringT),
              SF(B(<<"S", "i", "z", "e">>),
                 Tag(B(<<"D", "a", "t", "a", "F", "o", "r", "k", "S", "i", "z", "e">>)), IntT(64))>>,
            FALSE)
\* t.Implements(marshalerBufType): MarshalOscriptBuf is declared on *FileAttr
ImplementsMarshalerBuf(t) == t = PtrT(FileAttr)

\* type SDOName struct{}
sdoType == StructT("SDOName", <<>>, FALSE)
\* type sdoName []byte, with func (sn sdoName) UnmarshalOscript(data []byte) error
sdoNameT == [k |-> "sdoName"]
\* type Error int, with func (e *Error) UnmarshalOscript(data []byte) error:
\* the value of an E-literal
ErrorT == [k |-> "int", bits |-> 64, name |-> "Error"]
\* type Ref int, with func (*Ref) MarshalOscript() ([]byte, error) and
\* func (r *Ref) UnmarshalOscript([]byte) error
RefT == [k |-> "int", bits |-> 64, name |-> "Ref"]
\* type Val int, with func (Val) MarshalOscript() ([]byte, error)
ValT == [k |-> "int", bits |-> 64, name |-> "Val"]
\* a struct type of the caller with func (m M) MarshalOscript() ([]byte, error);
\* a value of it holds what its hook returns
MarshalerT == [k |-> "Marshaler"]
\* t.Implements(marshalerType): the method set of *T holds the methods of T
ImplementsMarshaler(t) ==
    t \in {MarshalerT, ErrorT, ValT, PtrT(MarshalerT), PtrT(ErrorT), PtrT(ValT), PtrT(RefT)}

\* reflect.Kind of a type: time.Time is a struct
Kind(t) ==
    IF t.k \in {"time", "Marshaler"} THEN "struct"
    ELSE IF t.k = "sdoName" THEN "slice"
    ELSE t.k

\* v.Type().Name() != ""
Named(t) == t.k \in {"bool", "int", "uint", "string", "time", "chan", "float", "sdoName",
                     "Marshaler"}
            \/ (t.k = "struct" /\ t.name # "")

\* reflect.Value{}: the invalid Value, and reflect.ValueOf(nil)
NilV == [t |-> [k |-> "invalid"]]

BoolV(b) == [t |-> BoolT, b |-> b]
IntV(bits, n) == [t |-> IntT(bits), n |-> n]
UintV(bits, n) == [t |-> UintT(bits), n |-> n]
StringV(s) == [t |-> StringT, s |-> s]
TimeV(y, mo, d, h, mi, s) ==
    [t |-> TimeT, year |-> y, month |-> mo, day |-> d, hour |-> h, min |-> mi, sec |-> s]
ChanV == [t |-> ChanT]
\* the finite float 0.d * 10^dp of the digits d, which begin and end with no
\* zero and are the shortest that give the float back; zero has no digits
Float(bits, neg, d, dp) ==
    [t |-> FloatT(bits), class |-> "finite", neg |-> neg, d |-> d, dp |-> dp]
Inf(bits, neg) == [t |-> FloatT(bits), class |-> "inf", neg |-> neg, d |-> <<>>, dp |-> 0]
NaN(bits) == [t |-> FloatT(bits), class |-> "nan", neg |-> FALSE, d |-> <<>>, dp |-> 0]
\* a slice with the elements elems; rest are the elements that the array
\* behind the slice holds beyond them, without the zero elements at its end
SliceCap(e, elems, rest) == [t |-> SliceT(e), nil |-> FALSE, e |-> elems, rest |-> rest]
SliceV(e, elems) == SliceCap(e, elems, <<>>)
NilSlice(e) == [t |-> SliceT(e), nil |-> TRUE, e |-> <<>>, rest |-> <<>>]
ArrayV(e, elems) == [t |-> ArrayT(Len(elems), e), e |-> elems]
MapV(key, e, m) == [t |-> MapT(key, e), nil |-> FALSE, m |-> m]
NilMap(key, e) == [t |-> MapT(key, e), nil |-> TRUE, m |-> <<>>]
PtrV(v) == [t |-> PtrT(v.t), nil |-> FALSE, v |-> v]
NilPtr(e) == [t |-> PtrT(e), nil |-> TRUE, v |-> NilV]
IfaceV(v) == [t |-> IfaceT, nil |-> FALSE, v |-> v]
NilIface == [t |-> IfaceT, nil |-> TRUE, v |-> NilV]
StructV(t, f) == [t |-> t, f |-> f]
ErrorV(n) == [t |-> ErrorT, n |-> n]
RefV(n) == [t |-> RefT, n |-> n]
ValV(n) == [t |-> ValT, n |-> n]
MarshalerV(b, err) == [t |-> MarshalerT, b |-> b, err |-> err]

\* reflect.Zero(t)
RECURSIVE Zero(_)
Zero(t) ==
    CASE t.k = "bool" -> BoolV(FALSE)
      [] t.k \in {"int", "uint"} -> [t |-> t, n |-> 0]
      [] t.k = "string" -> StringV(<<>>)
      [] t.k = "time" -> TimeV(1, 1, 1, 0, 0, 0)
      [] t.k = "chan" -> ChanV
      [] t.k = "float" -> Float(t.bits, FALSE, <<>>, 0)
      [] t.k = "iface" -> NilIface
      [] t.k = "slice" -> NilSlice(t.elem)
      [] t.k = "array" -> [t |-> t, e |-> [i \in 1..t.n |-> Zero(t.elem)]]
      [] t.k = "map" -> NilMap(t.key, t.elem)
      [] t.k = "ptr" -> NilPtr(t.elem)
      [] t.k = "struct" -> [t |-> t, f |-> [i \in 1..Len(t.fields) |-> Zero(t.fields[i].typ)]]

(***************************************************************************)
(* The flags of a reflect.Value: addr, the value is addressable; sticky,   *)
(* it was reached through an unexported field that is not embedded; embed, *)
(* through an unexported embedded field.                                   *)
(***************************************************************************)
Flag(addr, sticky, embed) == [addr |-> addr, sticky |-> sticky, embed |-> embed]
\* the flags of reflect.ValueOf(x)
NoFlag == Flag(FALSE, FALSE, FALSE)
\* the flags of reflect.New(t).Elem()
NewFlag == Flag(TRUE, FALSE, FALSE)
flagRO(fl) == fl.sticky \/ fl.embed
CanInterface(fl) == ~flagRO(fl)
CanAddr(fl) == fl.addr
CanSet(fl) == fl.addr /\ ~flagRO(fl)
\* v.Elem() of a pointer
ElemFlag(fl) == Flag(TRUE, fl.sticky, fl.embed)
\* v.Elem() of an interface
IfaceElemFlag(fl) == Flag(FALSE, flagRO(fl), FALSE)
\* v.Index(i) of a slice or array of type t
IndexFlag(fl, t) == Flag(t.k = "slice" \/ fl.addr, flagRO(fl), FALSE)
\* v.MapIndex(k), and the keys of v.MapKeys()
MapIndexFlag(fl) == Flag(FALSE, flagRO(fl), FALSE)
\* v.Addr()
AddrFlag(fl) == Flag(FALSE, fl.sticky, fl.embed)

\* a conversion of an input beyond the numbers and forms described with the
\* conversion: it has no value here
OutsideModel(x) == CHOOSE y \in {} : y = x

(***************************************************************************)
(* UTF-8 (unicode/utf8 as the codec uses it).                              *)
(***************************************************************************)
RuneSelf == 128
RuneError == 65533
Cont(b) == 128 <= b /\ b <= 191

\* utf8.DecodeRune(p): [c |-> rune, size |-> bytes consumed]
DecodeRune(p) ==
    LET n == Len(p)
        bad == [c |-> RuneError, size |-> IF n = 0 THEN 0 ELSE 1]
        b0 == p[1]
    IN IF n = 0 THEN bad
       ELSE IF b0 < RuneSelf THEN [c |-> b0, size |-> 1]
       ELSE IF 194 <= b0 /\ b0 <= 223
       THEN IF n >= 2 /\ Cont(p[2])
            THEN [c |-> (b0 - 192) * 64 + (p[2] - 128), size |-> 2]
            ELSE bad
       ELSE IF 224 <= b0 /\ b0 <= 239
       THEN IF /\ n >= 3
               /\ (IF b0 = 224 THEN 160 ELSE 128) <= p[2]
               /\ p[2] <= (IF b0 = 237 THEN 159 ELSE 191)
               /\ Cont(p[3])
            THEN [c |-> (b0 - 224) * 4096 + (p[2] - 128) * 64 + (p[3] - 128), size |-> 3]
            ELSE bad
       ELSE IF 240 <= b0 /\ b0 <= 244
       THEN IF /\ n >= 4
               /\ (IF b0 = 240 THEN 144 ELSE 128) <= p[2]
               /\ p[2] <= (IF b0 = 244 THEN 143 ELSE 191)
               /\ Cont(p[3])
               /\ Cont(p[4])
            THEN [c |-> (b0 - 240) * 262144 + (p[2] - 128) * 4096
                         + (p[3] - 128) * 64 + (p[4] - 128),
                  size |-> 4]
            ELSE bad
       ELSE bad

IsSurrogate(r) == 55296 <= r /\ r < 57344

\* utf8.EncodeRune: the bytes of rune r, of U+FFFD when r is not a valid rune
EncodeRune(r) ==
    IF r < 0 \/ r > 1114111 \/ IsSurrogate(r) THEN <<239, 191, 189>>
    ELSE IF r < 128 THEN <<r>>
    ELSE IF r < 2048 THEN <<192 + (r \div 64), 128 + (r % 64)>>
    ELSE IF r < 65536
    THEN <<224 + (r \div 4096), 128 + ((r \div 64) % 64), 128 + (r % 64)>>
    ELSE <<240 + (r \div 262144), 128 + ((r \div 4096) % 64),
           128 + ((r \div 64) % 64), 128 + (r % 64)>>

\* utf8.Valid
RECURSIVE ValidUTF8(_)
ValidUTF8(p) ==
    IF p = <<>> THEN TRUE
    ELSE LET r == DecodeRune(p)
         IN IF r.c = RuneError /\ r.size = 1 THEN FALSE
            ELSE ValidUTF8(Slice(p, r.size, Len(p)))

(***************************************************************************)
(* Encoder (encode.go).  Every encoder returns [buf, err]: the bytes it    *)
(* wrote and the error e.error panicked with (NoErr when none).            *)
(***************************************************************************)
Err(kind) == [kind |-> kind, msg |-> "", c |-> 0, off |-> 0]
Ok(b) == [buf |-> b, err |-> NoErr]
\* a run-time panic of the Go code that nothing recovers
Panic == Err("panic")

\* safeSet[b]: the ASCII bytes string() copies without escaping
safeSet(b) == b >= 32 /\ b < RuneSelf /\ b \notin {Ord["\""], Ord["'"], Ord["\\"]}

\* escapeByte without the named and \\u00XX escapes
escapeByteBare(b) == <<Ord["\\"], b>>

\* the escape string() writes for the unsafe ASCII byte b
escapeByte(b) ==
    IF b \in {Ord["\\"], Ord["\""], Ord["'"]} THEN <<Ord["\\"], b>>
    ELSE IF b = Ord["\n"] THEN B(<<"\\", "n">>)
    ELSE IF b = Ord["\r"] THEN B(<<"\\", "r">>)
    ELSE IF b = Ord["\t"] THEN B(<<"\\", "t">>)
    ELSE B(<<"\\", "u", "0", "0">>) \o <<hex(b \div 16), hex(b % 16)>>

\* the loop of encodeState.string at 0-based i, with start and the bytes written
RECURSIVE stringLoop(_, _, _, _)
stringLoop(s, i, start, buf) ==
    IF i >= Len(s)
    THEN IF start < Len(s) THEN buf \o Slice(s, start, Len(s)) ELSE buf
    ELSE LET b == s[i + 1]
             pre == IF start < i THEN buf \o Slice(s, start, i) ELSE buf
         IN IF b < RuneSelf
            THEN IF safeSet(b) THEN stringLoop(s, i + 1, start, buf)
                 ELSE stringLoop(s, i + 1, i + 1, pre \o escapeByte(b))
            ELSE LET r == DecodeRune(Slice(s, i, Len(s)))
                 IN IF r.c = RuneError /\ r.size = 1
                    THEN stringLoop(s, i + 1, i + 1,
                                    pre \o B(<<"\\", "u", "f", "f", "f", "d">>))
                    ELSE stringLoop(s, i + r.size, start, buf)

\* encodeState.string(s)
string(s) == <<Ord["'"]>> \o stringLoop(s, 0, 0, <<>>) \o <<Ord["'"]>>

\* strconv.AppendInt(n, 10), strconv.Itoa(n)
RECURSIVE DigitsFrom(_, _)
DigitsFrom(n, zero) ==
    IF n < 10 THEN <<zero + n>> ELSE DigitsFrom(n \div 10, zero) \o <<zero + (n % 10)>>
Digits(n) == DigitsFrom(n, Ord["0"])
FormatInt(n) == IF n < 0 THEN <<Ord["-"]>> \o Digits(0 - n) ELSE Digits(n)

\* base64.StdEncoding: the alphabet, and the padding character
encodeStd ==
    B(<<"A", "B", "C", "D", "E", "F", "G", "H", "I", "J", "K", "L", "M", "N", "O", "P", "Q",
        "R", "S", "T", "U", "V", "W", "X", "Y", "Z", "a", "b", "c", "d", "e", "f", "g", "h",
        "i", "j", "k", "l", "m", "n", "o", "p", "q", "r", "s", "t", "u", "v", "w", "x", "y",
        "z", "0", "1", "2", "3", "4", "5", "6", "7", "8", "9", "+", "/">>)
StdPadding == Ord["="]

\* base64.StdEncoding.Encode(dst, src): three bytes make four characters, a
\* rest of one or two bytes is padded
RECURSIVE EncodeBase64(_)
EncodeBase64(bs) ==
    LET c(x) == encodeStd[x + 1]
    IN IF bs = <<>> THEN <<>>
       ELSE IF Len(bs) = 1
       THEN <<c(bs[1] \div 4), c((bs[1] % 4) * 16), StdPadding, StdPadding>>
       ELSE IF Len(bs) = 2
       THEN <<c(bs[1] \div 4), c((bs[1] % 4) * 16 + bs[2] \div 16),
              c((bs[2] % 16) * 4), StdPadding>>
       ELSE <<c(bs[1] \div 4), c((bs[1] % 4) * 16 + bs[2] \div 16),
              c((bs[2] % 16) * 4 + bs[3] \div 64), c(bs[3] % 64)>>
            \o EncodeBase64(SubSeq(bs, 4, Len(bs)))

\* the value of a character of the alphabet, 255 for any other byte
decodeMap(ch) ==
    IF \E i \in DOMAIN encodeStd : encodeStd[i] = ch
    THEN (CHOOSE i \in DOMAIN encodeStd : encodeStd[i] = ch) - 1
    ELSE 255

\* base64.StdEncoding.Decode(dst, src): [ok, b].  bs is src the input without
\* its \r and \n, which the decoder skips; not ok is a CorruptInputError
RECURSIVE DecodeQuanta(_, _)
DecodeQuanta(bs, acc) ==
    LET d(i) == decodeMap(bs[i])
        bad == [ok |-> FALSE, b |-> <<>>]
    IN IF bs = <<>> THEN [ok |-> TRUE, b |-> acc]
       ELSE IF Len(bs) < 4 \/ d(1) = 255 \/ d(2) = 255 THEN bad
       ELSE IF bs[3] = StdPadding
       THEN IF Len(bs) = 4 /\ bs[4] = StdPadding
            THEN [ok |-> TRUE, b |-> acc \o <<d(1) * 4 + d(2) \div 16>>]
            ELSE bad
       ELSE IF d(3) = 255 THEN bad
       ELSE IF bs[4] = StdPadding
       THEN IF Len(bs) = 4
            THEN [ok |-> TRUE, b |-> acc \o <<d(1) * 4 + d(2) \div 16,
                                               (d(2) % 16) * 16 + d(3) \div 4>>]
            ELSE bad
       ELSE IF d(4) = 255 THEN bad
       ELSE DecodeQuanta(SubSeq(bs, 5, Len(bs)),
                         acc \o <<d(1) * 4 + d(2) \div 16, (d(2) % 16) * 16 + d(3) \div 4,
                                  (d(3) % 4) * 64 + d(4)>>)

DecodeBase64(bs) == DecodeQuanta(SelectSeq(bs, LAMBDA ch : ch \notin {10, 13}), <<>>)

\* Go's s < t on strings
LessBytes(a, b) ==
    \/ \E i \in 1..Len(a) : i <= Len(b) /\ a[i] < b[i] /\ SubSeq(a, 1, i - 1) = SubSeq(b, 1, i - 1)
    \/ Len(a) < Len(b) /\ a = SubSeq(b, 1, Len(a))

isEmptyValue(v) ==
    CASE Kind(v.t) \in {"array", "slice", "string"} ->
            Len(IF Kind(v.t) = "string" \/ v.t = sdoNameT THEN v.s ELSE v.e) = 0
      [] Kind(v.t) = "map" -> DOMAIN v.m = {}
      [] Kind(v.t) = "bool" -> ~v.b
      [] Kind(v.t) \in {"int", "uint"} -> v.n = 0
      [] Kind(v.t) = "float" -> v.class = "finite" /\ v.d = <<>>
      [] Kind(v.t) \in {"iface", "ptr"} -> v.nil
      [] OTHER -> FALSE

\* the runes of for _, c := range s: a byte that begins no rune gives U+FFFD
RECURSIVE Runes(_)
RunesAfter(s, r) == <<r.c>> \o Runes(Slice(s, r.size, Len(s)))
Runes(s) == IF s = <<>> THEN <<>> ELSE RunesAfter(s, DecodeRune(s))

\* The tables of package unicode depend on the toolchain that builds the
\* program: Unicode 10.0 with Go 1.12, the oldest one the README admits, later
\* versions with later ones.  LetterRanges, DigitRanges and UpperRanges are the
\* ranges of the categories L, Nd and Lu above U+007F among the code points
\* assigned in Unicode 10.0, which every toolchain has.  LaterRanges are the
\* code points that are letters or digits in some later table only, or are
\* assigned in no table up to Unicode 14.0, or became letters after Unicode
\* 10.0 (U+1CF2 and U+1CF3): what they are depends on the toolchain, and the
\* predicates have no value for them.
LetterRanges ==
    <<<<170, 170>>, <<181, 181>>, <<186, 186>>, <<192, 214>>, <<216, 246>>, <<248, 705>>,
      <<710, 721>>, <<736, 740>>, <<748, 748>>, <<750, 750>>, <<880, 884>>, <<886, 887>>,
      <<890, 893>>, <<895, 895>>, <<902, 902>>, <<904, 906>>, <<908, 908>>, <<910, 929>>,
      <<931, 1013>>, <<1015, 1153>>, <<1162, 1327>>, <<1329, 1366>>, <<1369, 1369>>,
      <<1377, 1415>>, <<1488, 1514>>, <<1520, 1522>>, <<1568, 1610>>, <<1646, 1647>>,
      <<1649, 1747>>, <<1749, 1749>>, <<1765, 1766>>, <<1774, 1775>>, <<1786, 1788>>,
      <<1791, 1791>>, <<1808, 1808>>, <<1810, 1839>>, <<1869, 1957>>, <<1969, 1969>>,
      <<1994, 2026>>, <<2036, 2037>>, <<2042, 2042>>, <<2048, 2069>>, <<2074, 2074>>,
      <<2084, 2084>>, <<2088, 2088>>, <<2112, 2136>>, <<2144, 2154>>, <<2208, 2228>>,
      <<2230, 2237>>, <<2308, 2361>>, <<2365, 2365>>, <<2384, 2384>>, <<2392, 2401>>,
      <<2417, 2432>>, <<2437, 2444>>, <<2447, 2448>>, <<2451, 2472>>, <<2474, 2480>>,
      <<2482, 2482>>, <<2486, 2489>>, <<2493, 2493>>, <<2510, 2510>>, <<2524, 2525>>,
      <<2527, 2529>>, <<2544, 2545>>, <<2556, 2556>>, <<2565, 2570>>, <<2575, 2576>>,
      <<2579, 2600>>, <<2602, 2608>>, <<2610, 2611>>, <<2613, 2614>>, <<2616, 2617>>,
      <<2649, 2652>>, <<2654, 2654>>, <<2674, 2676>>, <<2693, 2701>>, <<2703, 2705>>,
      <<2707, 2728>>, <<2730, 2736>>, <<2738, 2739>>, <<2741, 2745>>, <<2749, 2749>>,
      <<2768, 2768>>, <<2784, 2785>>, <<2809, 2809>>, <<2821, 2828>>, <<2831, 2832>>,
      <<2835, 2856>>, <<2858, 2864>>, <<2866, 2867>>, <<2869, 2873>>, <<2877, 2877>>,
      <<2908, 2909>>, <<2911, 2913>>, <<2929, 2929>>, <<2947, 2947>>, <<2949, 2954>>,
      <<2958, 2960>>, <<2962, 2965>>, <<2969, 2970>>, <<2972, 2972>>, <<2974, 2975>>,
      <<2979, 2980>>, <<2984, 2986>>, <<2990, 3001>>, <<3024, 3024>>, <<3077, 3084>>,
      <<3086, 3088>>, <<3090, 3112>>, <<3114, 3129>>, <<3133, 3133>>, <<3160, 3162>>,
      <<3168, 3169>>, <<3200, 3200>>, <<3205, 3212>>, <<3214, 3216>>, <<3218, 3240>>,
      <<3242, 3251>>, <<3253, 3257>>, <<3261, 3261>>, <<3294, 3294>>, <<3296, 3297>>,
      <<3313, 3314>>, <<3333, 3340>>, <<3342, 3344>>, <<3346, 3386>>, <<3389, 3389>>,
      <<3406, 3406>>, <<3412, 3414>>, <<3423, 3425>>, <<3450, 3455>>, <<3461, 3478>>,
      <<3482, 3505>>, <<3507, 3515>>, <<3517, 3517>>, <<3520, 3526>>, <<3585, 3632>>,
      <<3634, 3635>>, <<3648, 3654>>, <<3713, 3714>>, <<3716, 3716>>, <<3719, 3720>>,
      <<3722, 3722>>, <<3725, 3725>>, <<3732, 3735>>, <<3737, 3743>>, <<3745, 3747>>,
      <<3749, 3749>>, <<3751, 3751>>, <<3754, 3755>>, <<3757, 3760>>, <<3762, 3763>>,
      <<3773, 3773>>, <<3776, 3780>>, <<3782, 3782>>, <<3804, 3807>>, <<3840, 3840>>,
      <<3904, 3911>>, <<3913, 3948>>, <<3976, 3980>>, <<4096, 4138>>, <<4159, 4159>>,
      <<4176, 4181>>, <<4186, 4189>>, <<4193, 4193>>, <<4197, 4198>>, <<4206, 4208>>,
      <<4213, 4225>>, <<4238, 4238>>, <<4256, 4293>>, <<4295, 4295>>, <<4301, 4301>>,
      <<4304, 4346>>, <<4348, 4680>>, <<4682, 4685>>, <<4688, 4694>>, <<4696, 4696>>,
      <<4698, 4701>>, <<4704, 4744>>, <<4746, 4749>>, <<4752, 4784>>, <<4786, 4789>>,
      <<4792, 4798>>, <<4800, 4800>>, <<4802, 4805>>, <<4808, 4822>>, <<4824, 4880>>,
      <<4882, 4885>>, <<4888, 4954>>, <<4992, 5007>>, <<5024, 5109>>, <<5112, 5117>>,
      <<5121, 5740>>, <<5743, 5759>>, <<5761, 5786>>, <<5792, 5866>>, <<5873, 5880>>,
      <<5888, 5900>>, <<5902, 5905>>, <<5920, 5937>>, <<5952, 5969>>, <<5984, 5996>>,
      <<5998, 6000>>, <<6016, 6067>>, <<6103, 6103>>, <<6108, 6108>>, <<6176, 6263>>,
      <<6272, 6276>>, <<6279, 6312>>, <<6314, 6314>>, <<6320, 6389>>, <<6400, 6430>>,
      <<6480, 6509>>, <<6512, 6516>>, <<6528, 6571>>, <<6576, 6601>>, <<6656, 6678>>,
      <<6688, 6740>>, <<6823, 6823>>, <<6917, 6963>>, <<6981, 6987>>, <<7043, 7072>>,
      <<7086, 7087>>, <<7098, 7141>>, <<7168, 7203>>, <<7245, 7247>>, <<7258, 7293>>,
      <<7296, 7304>>, <<7401, 7404>>, <<7406, 7409>>, <<7413, 7414>>, <<7424, 7615>>,
      <<7680, 7957>>, <<7960, 7965>>, <<7968, 8005>>, <<8008, 8013>>, <<8016, 8023>>,
      <<8025, 8025>>, <<8027, 8027>>, <<8029, 8029>>, <<8031, 8061>>, <<8064, 8116>>,
      <<8118, 8124>>, <<8126, 8126>>, <<8130, 8132>>, <<8134, 8140>>, <<8144, 8147>>,
      <<8150, 8155>>, <<8160, 8172>>, <<8178, 8180>>, <<8182, 8188>>, <<8305, 8305>>,
      <<8319, 8319>>, <<8336, 8348>>, <<8450, 8450>>, <<8455, 8455>>, <<8458, 8467>>,
      <<8469, 8469>>, <<8473, 8477>>, <<8484, 8484>>, <<8486, 8486>>, <<8488, 8488>>,
      <<8490, 8493>>, <<8495, 8505>>, <<8508, 8511>>, <<8517, 8521>>, <<8526, 8526>>,
      <<8579, 8580>>, <<11264, 11310>>, <<11312, 11358>>, <<11360, 11492>>, <<11499, 11502>>,
      <<11506, 11507>>, <<11520, 11557>>, <<11559, 11559>>, <<11565, 11565>>, <<11568, 11623>>,
      <<11631, 11631>>, <<11648, 11670>>, <<11680, 11686>>, <<11688, 11694>>, <<11696, 11702>>,
      <<11704, 11710>>, <<11712, 11718>>, <<11720, 11726>>, <<11728, 11734>>, <<11736, 11742>>,
      <<11823, 11823>>, <<12293, 12294>>, <<12337, 12341>>, <<12347, 12348>>, <<12353, 12438>>,
      <<12445, 12447>>, <<12449, 12538>>, <<12540, 12543>>, <<12549, 12590>>, <<12593, 12686>>,
      <<12704, 12730>>, <<12784, 12799>>, <<13312, 19893>>, <<19968, 40938>>, <<40960, 42124>>,
      <<42192, 42237>>, <<42240, 42508>>, <<42512, 42527>>, <<42538, 42539>>, <<42560, 42606>>,
      <<42623, 42653>>, <<42656, 42725>>, <<42775, 42783>>, <<42786, 42888>>, <<42891, 42926>>,
      <<42928, 42935>>, <<42999, 43009>>, <<43011, 43013>>, <<43015, 43018>>, <<43020, 43042>>,
      <<43072, 43123>>, <<43138, 43187>>, <<43250, 43255>>, <<43259, 43259>>, <<43261, 43261>>,
      <<43274, 43301>>, <<43312, 43334>>, <<43360, 43388>>, <<43396, 43442>>, <<43471, 43471>>,
      <<43488, 43492>>, <<43494, 43503>>, <<43514, 43518>>, <<43520, 43560>>, <<43584, 43586>>,
      <<43588, 43595>>, <<43616, 43638>>, <<43642, 43642>>, <<43646, 43695>>, <<43697, 43697>>,
      <<43701, 43702>>, <<43705, 43709>>, <<43712, 43712>>, <<43714, 43714>>, <<43739, 43741>>,
      <<43744, 43754>>, <<43762, 43764>>, <<43777, 43782>>, <<43785, 43790>>, <<43793, 43798>>,
      <<43808, 43814>>, <<43816, 43822>>, <<43824, 43866>>, <<43868, 43877>>, <<43888, 44002>>,
      <<44032, 55203>>, <<55216, 55238>>, <<55243, 55291>>, <<63744, 64109>>, <<64112, 64217>>,
      <<64256, 64262>>, <<64275, 64279>>, <<64285, 64285>>, <<64287, 64296>>, <<64298, 64310>>,
      <<64312, 64316>>, <<64318, 64318>>, <<64320, 64321>>, <<64323, 64324>>, <<64326, 64433>>,
      <<64467, 64829>>, <<64848, 64911>>, <<64914, 64967>>, <<65008, 65019>>, <<65136, 65140>>,
      <<65142, 65276>>, <<65313, 65338>>, <<65345, 65370>>, <<65382, 65470>>, <<65474, 65479>>,
      <<65482, 65487>>, <<65490, 65495>>, <<65498, 65500>>, <<65536, 65547>>, <<65549, 65574>>,
      <<65576, 65594>>, <<65596, 65597>>, <<65599, 65613>>, <<65616, 65629>>, <<65664, 65786>>,
      <<66176, 66204>>, <<66208, 66256>>, <<66304, 66335>>, <<66349, 66368>>, <<66370, 66377>>,
      <<66384, 66421>>, <<66432, 66461>>, <<66464, 66499>>, <<66504, 66511>>, <<66560, 66717>>,
      <<66736, 66771>>, <<66776, 66811>>, <<66816, 66855>>, <<66864, 66915>>, <<67072, 67382>>,
      <<67392, 67413>>, <<67424, 67431>>, <<67584, 67589>>, <<67592, 67592>>, <<67594, 67637>>,
      <<67639, 67640>>, <<67644, 67644>>, <<67647, 67669>>, <<67680, 67702>>, <<67712, 67742>>,
      <<67808, 67826>>, <<67828, 67829>>, <<67840, 67861>>, <<67872, 67897>>, <<67968, 68023>>,
      <<68030, 68031>>, <<68096, 68096>>, <<68112, 68115>>, <<68117, 68119>>, <<68121, 68147>>,
      <<68192, 68220>>, <<68224, 68252>>, <<68288, 68295>>, <<68297, 68324>>, <<68352, 68405>>,
      <<68416, 68437>>, <<68448, 68466>>, <<68480, 68497>>, <<68608, 68680>>, <<68736, 68786>>,
      <<68800, 68850>>, <<69635, 69687>>, <<69763, 69807>>, <<69840, 69864>>, <<69891, 69926>>,
      <<69968, 70002>>, <<70006, 70006>>, <<70019, 70066>>, <<70081, 70084>>, <<70106, 70106>>,
      <<70108, 70108>>, <<70144, 70161>>, <<70163, 70187>>, <<70272, 70278>>, <<70280, 70280>>,
      <<70282, 70285>>, <<70287, 70301>>, <<70303, 70312>>, <<70320, 70366>>, <<70405, 70412>>,
      <<70415, 70416>>, <<70419, 70440>>, <<70442, 70448>>, <<70450, 70451>>, <<70453, 70457>>,
      <<70461, 70461>>, <<70480, 70480>>, <<70493, 70497>>, <<70656, 70708>>, <<70727, 70730>>,
      <<70784, 70831>>, <<70852, 70853>>, <<70855, 70855>>, <<71040, 71086>>, <<71128, 71131>>,
      <<71168, 71215>>, <<71236, 71236>>, <<71296, 71338>>, <<71424, 71449>>, <<71840, 71903>>,
      <<71935, 71935>>, <<72192, 72192>>, <<72203, 72242>>, <<72250, 72250>>, <<72272, 72272>>,
      <<72284, 72323>>, <<72326, 72329>>, <<72384, 72440>>, <<72704, 72712>>, <<72714, 72750>>,
      <<72768, 72768>>, <<72818, 72847>>, <<72960, 72966>>, <<72968, 72969>>, <<72971, 73008>>,
      <<73030, 73030>>, <<73728, 74649>>, <<74880, 75075>>, <<77824, 78894>>, <<82944, 83526>>,
      <<92160, 92728>>, <<92736, 92766>>, <<92880, 92909>>, <<92928, 92975>>, <<92992, 92995>>,
      <<93027, 93047>>, <<93053, 93071>>, <<93952, 94020>>, <<94032, 94032>>, <<94099, 94111>>,
      <<94176, 94177>>, <<94208, 100332>>, <<100352, 101106>>, <<110592, 110878>>,
      <<110960, 111355>>, <<113664, 113770>>, <<113776, 113788>>, <<113792, 113800>>,
      <<113808, 113817>>, <<119808, 119892>>, <<119894, 119964>>, <<119966, 119967>>,
      <<119970, 119970>>, <<119973, 119974>>, <<119977, 119980>>, <<119982, 119993>>,
      <<119995, 119995>>, <<119997, 120003>>, <<120005, 120069>>, <<120071, 120074>>,
      <<120077, 120084>>, <<120086, 120092>>, <<120094, 120121>>, <<120123, 120126>>,
      <<120128, 120132>>, <<120134, 120134>>, <<120138, 120144>>, <<120146, 120485>>,
      <<120488, 120512>>, <<120514, 120538>>, <<120540, 120570>>, <<120572, 120596>>,
      <<120598, 120628>>, <<120630, 120654>>, <<120656, 120686>>, <<120688, 120712>>,
      <<120714, 120744>>, <<120746, 120770>>, <<120772, 120779>>, <<124928, 125124>>,
      <<125184, 125251>>, <<126464, 126467>>, <<126469, 126495>>, <<126497, 126498>>,
      <<126500, 126500>>, <<126503, 126503>>, <<126505, 126514>>, <<126516, 126519>>,
      <<126521, 126521>>, <<126523, 126523>>, <<126530, 126530>>, <<126535, 126535>>,
      <<126537, 126537>>, <<126539, 126539>>, <<126541, 126543>>, <<126545, 126546>>,
      <<126548, 126548>>, <<126551, 126551>>, <<126553, 126553>>, <<126555, 126555>>,
      <<126557, 126557>>, <<126559, 126559>>, <<126561, 126562>>, <<126564, 126564>>,
      <<126567, 126570>>, <<126572, 126578>>, <<126580, 126583>>, <<126585, 126588>>,
      <<126590, 126590>>, <<126592, 126601>>, <<126603, 126619>>, <<126625, 126627>>,
      <<126629, 126633>>, <<126635, 126651>>, <<131072, 173782>>, <<173824, 177972>>,
      <<177984, 178205>>, <<178208, 183969>>, <<183984, 191456>>, <<194560, 195101>>>>

DigitRanges ==
    <<<<1632, 1641>>, <<1776, 1785>>, <<1984, 1993>>, <<2406, 2415>>, <<2534, 2543>>,
      <<2662, 2671>>, <<2790, 2799>>, <<2918, 2927>>, <<3046, 3055>>, <<3174, 3183>>,
      <<3302, 3311>>, <<3430, 3439>>, <<3558, 3567>>, <<3664, 3673>>, <<3792, 3801>>,
      <<3872, 3881>>, <<4160, 4169>>, <<4240, 4249>>, <<6112, 6121>>, <<6160, 6169>>,
      <<6470, 6479>>, <<6608, 6617>>, <<6784, 6793>>, <<6800, 6809>>, <<6992, 7001>>,
      <<7088, 7097>>, <<7232, 7241>>, <<7248, 7257>>, <<42528, 42537>>, <<43216, 43225>>,
      <<43264, 43273>>, <<43472, 43481>>, <<43504, 43513>>, <<43600, 43609>>, <<44016, 44025>>,
      <<65296, 65305>>, <<66720, 66729>>, <<69734, 69743>>, <<69872, 69881>>, <<69942, 69951>>,
      <<70096, 70105>>, <<70384, 70393>>, <<70736, 70745>>, <<70864, 70873>>, <<71248, 71257>>,
      <<71360, 71369>>, <<71472, 71481>>, <<71904, 71913>>, <<72784, 72793>>, <<73040, 73049>>,
      <<92768, 92777>>, <<93008, 93017>>, <<120782, 120831>>, <<125264, 125273>>>>

UpperRanges ==
    <<<<192, 214>>, <<216, 222>>, <<256, 256>>, <<258, 258>>, <<260, 260>>, <<262, 262>>,
      <<264, 264>>, <<266, 266>>, <<268, 268>>, <<270, 270>>, <<272, 272>>, <<274, 274>>,
      <<276, 276>>, <<278, 278>>, <<280, 280>>, <<282, 282>>, <<284, 284>>, <<286, 286>>,
      <<288, 288>>, <<290, 290>>, <<292, 292>>, <<294, 294>>, <<296, 296>>, <<298, 298>>,
      <<300, 300>>, <<302, 302>>, <<304, 304>>, <<306, 306>>, <<308, 308>>, <<310, 310>>,
      <<313, 313>>, <<315, 315>>, <<317, 317>>, <<319, 319>>, <<321, 321>>, <<323, 323>>,
      <<325, 325>>, <<327, 327>>, <<330, 330>>, <<332, 332>>, <<334, 334>>, <<336, 336>>,
      <<338, 338>>, <<340, 340>>, <<342, 342>>, <<344, 344>>, <<346, 346>>, <<348, 348>>,
      <<350, 350>>, <<352, 352>>, <<354, 354>>, <<356, 356>>, <<358, 358>>, <<360, 360>>,
      <<362, 362>>, <<364, 364>>, <<366, 366>>, <<368, 368>>, <<370, 370>>, <<372, 372>>,
      <<374, 374>>, <<376, 377>>, <<379, 379>>, <<381, 381>>, <<385, 386>>, <<388, 388>>,
      <<390, 391>>, <<393, 395>>, <<398, 401>>, <<403, 404>>, <<406, 408>>, <<412, 413>>,
      <<415, 416>>, <<418, 418>>, <<420, 420>>, <<422, 423>>, <<425, 425>>, <<428, 428>>,
      <<430, 431>>, <<433, 435>>, <<437, 437>>, <<439, 440>>, <<444, 444>>, <<452, 452>>,
      <<455, 455>>, <<458, 458>>, <<461, 461>>, <<463, 463>>, <<465, 465>>, <<467, 467>>,
      <<469, 469>>, <<471, 471>>, <<473, 473>>, <<475, 475>>, <<478, 478>>, <<480, 480>>,
      <<482, 482>>, <<484, 484>>, <<486, 486>>, <<488, 488>>, <<490, 490>>, <<492, 492>>,
      <<494, 494>>, <<497, 497>>, <<500, 500>>, <<502, 504>>, <<506, 506>>, <<508, 508>>,
      <<510, 510>>, <<512, 512>>, <<514, 514>>, <<516, 516>>, <<518, 518>>, <<520, 520>>,
      <<522, 522>>, <<524, 524>>, <<526, 526>>, <<528, 528>>, <<530, 530>>, <<532, 532>>,
      <<534, 534>>, <<536, 536>>, <<538, 538>>, <<540, 540>>, <<542, 542>>, <<544, 544>>,
      <<546, 546>>, <<548, 548>>, <<550, 550>>, <<552, 552>>, <<554, 554>>, <<556, 556>>,
      <<558, 558>>, <<560, 560>>, <<562, 562>>, <<570, 571>>, <<573, 574>>, <<577, 577>>,
      <<579, 582>>, <<584, 584>>, <<586, 586>>, <<588, 588>>, <<590, 590>>, <<880, 880>>,
      <<882, 882>>, <<886, 886>>, <<895, 895>>, <<902, 902>>, <<904, 906>>, <<908, 908>>,
      <<910, 911>>, <<913, 929>>, <<931, 939>>, <<975, 975>>, <<978, 980>>, <<984, 984>>,
      <<986, 986>>, <<988, 988>>, <<990, 990>>, <<992, 992>>, <<994, 994>>, <<996, 996>>,
      <<998, 998>>, <<1000, 1000>>, <<1002, 1002>>, <<1004, 1004>>, <<1006, 1006>>,
      <<1012, 1012>>, <<1015, 1015>>, <<1017, 1018>>, <<1021, 1071>>, <<1120, 1120>>,
      <<1122, 1122>>, <<1124, 1124>>, <<1126, 1126>>, <<1128, 1128>>, <<1130, 1130>>,
      <<1132, 1132>>, <<1134, 1134>>, <<1136, 1136>>, <<1138, 1138>>, <<1140, 1140>>,
      <<1142, 1142>>, <<1144, 1144>>, <<1146, 1146>>, <<1148, 1148>>, <<1150, 1150>>,
      <<1152, 1152>>, <<1162, 1162>>, <<1164, 1164>>, <<1166, 1166>>, <<1168, 1168>>,
      <<1170, 1170>>, <<1172, 1172>>, <<1174, 1174>>, <<1176, 1176>>, <<1178, 1178>>,
      <<1180, 1180>>, <<1182, 1182>>, <<1184, 1184>>, <<1186, 1186>>, <<1188, 1188>>,
      <<1190, 1190>>, <<1192, 1192>>, <<1194, 1194>>, <<1196, 1196>>, <<1198, 1198>>,
      <<1200, 1200>>, <<1202, 1202>>, <<1204, 1204>>, <<1206, 1206>>, <<1208, 1208>>,
      <<1210, 1210>>, <<1212, 1212>>, <<1214, 1214>>, <<1216, 1217>>, <<1219, 1219>>,
      <<1221, 1221>>, <<1223, 1223>>, <<1225, 1225>>, <<1227, 1227>>, <<1229, 1229>>,
      <<1232, 1232>>, <<1234, 1234>>, <<1236, 1236>>, <<1238, 1238>>, <<1240, 1240>>,
      <<1242, 1242>>, <<1244, 1244>>, <<1246, 1246>>, <<1248, 1248>>, <<1250, 1250>>,
      <<1252, 1252>>, <<1254, 1254>>, <<1256, 1256>>, <<1258, 1258>>, <<1260, 1260>>,
      <<1262, 1262>>, <<1264, 1264>>, <<1266, 1266>>, <<1268, 1268>>, <<1270, 1270>>,
      <<1272, 1272>>, <<1274, 1274>>, <<1276, 1276>>, <<1278, 1278>>, <<1280, 1280>>,
      <<1282, 1282>>, <<1284, 1284>>, <<1286, 1286>>, <<1288, 1288>>, <<1290, 1290>>,
      <<1292, 1292>>, <<1294, 1294>>, <<1296, 1296>>, <<1298, 1298>>, <<1300, 1300>>,
      <<1302, 1302>>, <<1304, 1304>>, <<1306, 1306>>, <<1308, 1308>>, <<1310, 1310>>,
      <<1312, 1312>>, <<1314, 1314>>, <<1316, 1316>>, <<1318, 1318>>, <<1320, 1320>>,
      <<1322, 1322>>, <<1324, 1324>>, <<1326, 1326>>, <<1329, 1366>>, <<4256, 4293>>,
      <<4295, 4295>>, <<4301, 4301>>, <<5024, 5109>>, <<7680, 7680>>, <<7682, 7682>>,
      <<7684, 7684>>, <<7686, 7686>>, <<7688, 7688>>, <<7690, 7690>>, <<7692, 7692>>,
      <<7694, 7694>>, <<7696, 7696>>, <<7698, 7698>>, <<7700, 7700>>, <<7702, 7702>>,
      <<7704, 7704>>, <<7706, 7706>>, <<7708, 7708>>, <<7710, 7710>>, <<7712, 7712>>,
      <<7714, 7714>>, <<7716, 7716>>, <<7718, 7718>>, <<7720, 7720>>, <<7722, 7722>>,
      <<7724, 7724>>, <<7726, 7726>>, <<7728, 7728>>, <<7730, 7730>>, <<7732, 7732>>,
      <<7734, 7734>>, <<7736, 7736>>, <<7738, 7738>>, <<7740, 7740>>, <<7742, 7742>>,
      <<7744, 7744>>, <<7746, 7746>>, <<7748, 7748>>, <<7750, 7750>>, <<7752, 7752>>,
      <<7754, 7754>>, <<7756, 7756>>, <<7758, 7758>>, <<7760, 7760>>, <<7762, 7762>>,
      <<7764, 7764>>, <<7766, 7766>>, <<7768, 7768>>, <<7770, 7770>>, <<7772, 7772>>,
      <<7774, 7774>>, <<7776, 7776>>, <<7778, 7778>>, <<7780, 7780>>, <<7782, 7782>>,
      <<7784, 7784>>, <<7786, 7786>>, <<7788, 7788>>, <<7790, 7790>>, <<7792, 7792>>,
      <<7794, 7794>>, <<7796, 7796>>, <<7798, 7798>>, <<7800, 7800>>, <<7802, 7802>>,
      <<7804, 7804>>, <<7806, 7806>>, <<7808, 7808>>, <<7810, 7810>>, <<7812, 7812>>,
      <<7814, 7814>>, <<7816, 7816>>, <<7818, 7818>>, <<7820, 7820>>, <<7822, 7822>>,
      <<7824, 7824>>, <<7826, 7826>>, <<7828, 7828>>, <<7838, 7838>>, <<7840, 7840>>,
      <<7842, 7842>>, <<7844, 7844>>, <<7846, 7846>>, <<7848, 7848>>, <<7850, 7850>>,
      <<7852, 7852>>, <<7854, 7854>>, <<7856, 7856>>, <<7858, 7858>>, <<7860, 7860>>,
      <<7862, 7862>>, <<7864, 7864>>, <<7866, 7866>>, <<7868, 7868>>, <<7870, 7870>>,
      <<7872, 7872>>, <<7874, 7874>>, <<7876, 7876>>, <<7878, 7878>>, <<7880, 7880>>,
      <<7882, 7882>>, <<7884, 7884>>, <<7886, 7886>>, <<7888, 7888>>, <<7890, 7890>>,
      <<7892, 7892>>, <<7894, 7894>>, <<7896, 7896>>, <<7898, 7898>>, <<7900, 7900>>,
      <<7902, 7902>>, <<7904, 7904>>, <<7906, 7906>>, <<7908, 7908>>, <<7910, 7910>>,
      <<7912, 7912>>, <<7914, 7914>>, <<7916, 7916>>, <<7918, 7918>>, <<7920, 7920>>,
      <<7922, 7922>>, <<7924, 7924>>, <<7926, 7926>>, <<7928, 7928>>, <<7930, 7930>>,
      <<7932, 7932>>, <<7934, 7934>>, <<7944, 7951>>, <<7960, 7965>>, <<7976, 7983>>,
      <<7992, 7999>>, <<8008, 8013>>, <<8025, 8025>>, <<8027, 8027>>, <<8029, 8029>>,
      <<8031, 8031>>, <<8040, 8047>>, <<8120, 8123>>, <<8136, 8139>>, <<8152, 8155>>,
      <<8168, 8172>>, <<8184, 8187>>, <<8450, 8450>>, <<8455, 8455>>, <<8459, 8461>>,
      <<8464, 8466>>, <<8469, 8469>>, <<8473, 8477>>, <<8484, 8484>>, <<8486, 8486>>,
      <<8488, 8488>>, <<8490, 8493>>, <<8496, 8499>>, <<8510, 8511>>, <<8517, 8517>>,
      <<8579, 8579>>, <<11264, 11310>>, <<11360, 11360>>, <<11362, 11364>>, <<11367, 11367>>,
      <<11369, 11369>>, <<11371, 11371>>, <<11373, 11376>>, <<11378, 11378>>, <<11381, 11381>>,
      <<11390, 11392>>, <<11394, 11394>>, <<11396, 11396>>, <<11398, 11398>>, <<11400, 11400>>,
      <<11402, 11402>>, <<11404, 11404>>, <<11406, 11406>>, <<11408, 11408>>, <<11410, 11410>>,
      <<11412, 11412>>, <<11414, 11414>>, <<11416, 11416>>, <<11418, 11418>>, <<11420, 11420>>,
      <<11422, 11422>>, <<11424, 11424>>, <<11426, 11426>>, <<11428, 11428>>, <<11430, 11430>>,
      <<11432, 11432>>, <<11434, 11434>>, <<11436, 11436>>, <<11438, 11438>>, <<11440, 11440>>,
      <<11442, 11442>>, <<11444, 11444>>, <<11446, 11446>>, <<11448, 11448>>, <<11450, 11450>>,
      <<11452, 11452>>, <<11454, 11454>>, <<11456, 11456>>, <<11458, 11458>>, <<11460, 11460>>,
      <<11462, 11462>>, <<11464, 11464>>, <<11466, 11466>>, <<11468, 11468>>, <<11470, 11470>>,
      <<11472, 11472>>, <<11474, 11474>>, <<11476, 11476>>, <<11478, 11478>>, <<11480, 11480>>,
      <<11482, 11482>>, <<11484, 11484>>, <<11486, 11486>>, <<11488, 11488>>, <<11490, 11490>>,
      <<11499, 11499>>, <<11501, 11501>>, <<11506, 11506>>, <<42560, 42560>>, <<42562, 42562>>,
      <<42564, 42564>>, <<42566, 42566>>, <<42568, 42568>>, <<42570, 42570>>, <<42572, 42572>>,
      <<42574, 42574>>, <<42576, 42576>>, <<42578, 42578>>, <<42580, 42580>>, <<42582, 42582>>,
      <<42584, 42584>>, <<42586, 42586>>, <<42588, 42588>>, <<42590, 42590>>, <<42592, 42592>>,
      <<42594, 42594>>, <<42596, 42596>>, <<42598, 42598>>, <<42600, 42600>>, <<42602, 42602>>,
      <<42604, 42604>>, <<42624, 42624>>, <<42626, 42626>>, <<42628, 42628>>, <<42630, 42630>>,
      <<42632, 42632>>, <<42634, 42634>>, <<42636, 42636>>, <<42638, 42638>>, <<42640, 42640>>,
      <<42642, 42642>>, <<42644, 42644>>, <<42646, 42646>>, <<42648, 42648>>, <<42650, 42650>>,
      <<42786, 42786>>, <<42788, 42788>>, <<42790, 42790>>, <<42792, 42792>>, <<42794, 42794>>,
      <<42796, 42796>>, <<42798, 42798>>, <<42802, 42802>>, <<42804, 42804>>, <<42806, 42806>>,
      <<42808, 42808>>, <<42810, 42810>>, <<42812, 42812>>, <<42814, 42814>>, <<42816, 42816>>,
      <<42818, 42818>>, <<42820, 42820>>, <<42822, 42822>>, <<42824, 42824>>, <<42826, 42826>>,
      <<42828, 42828>>, <<42830, 42830>>, <<42832, 42832>>, <<42834, 42834>>, <<42836, 42836>>,
      <<42838, 42838>>, <<42840, 42840>>, <<42842, 42842>>, <<42844, 42844>>, <<42846, 42846>>,
      <<42848, 42848>>, <<42850, 42850>>, <<42852, 42852>>, <<42854, 42854>>, <<42856, 42856>>,
      <<42858, 42858>>, <<42860, 42860>>, <<42862, 42862>>, <<42873, 42873>>, <<42875, 42875>>,
      <<42877, 42878>>, <<42880, 42880>>, <<42882, 42882>>, <<42884, 42884>>, <<42886, 42886>>,
      <<42891, 42891>>, <<42893, 42893>>, <<42896, 42896>>, <<42898, 42898>>, <<42902, 42902>>,
      <<42904, 42904>>, <<42906, 42906>>, <<42908, 42908>>, <<42910, 42910>>, <<42912, 42912>>,
      <<42914, 42914>>, <<42916, 42916>>, <<42918, 42918>>, <<42920, 42920>>, <<42922, 42926>>,
      <<42928, 42932>>, <<42934, 42934>>, <<65313, 65338>>, <<66560, 66599>>, <<66736, 66771>>,
      <<68736, 68786>>, <<71840, 71871>>, <<119808, 119833>>, <<119860, 119885>>,
      <<119912, 119937>>, <<119964, 119964>>, <<119966, 119967>>, <<119970, 119970>>,
      <<119973, 119974>>, <<119977, 119980>>, <<119982, 119989>>, <<120016, 120041>>,
      <<120068, 120069>>, <<120071, 120074>>, <<120077, 120084>>, <<120086, 120092>>,
      <<120120, 120121>>, <<120123, 120126>>, <<120128, 120132>>, <<120134, 120134>>,
      <<120138, 120144>>, <<120172, 120197>>, <<120224, 120249>>, <<120276, 120301>>,
      <<120328, 120353>>, <<120380, 120405>>, <<120432, 120457>>, <<120488, 120512>>,
      <<120546, 120570>>, <<120604, 120628>>, <<120662, 120686>>, <<120720, 120744>>,
      <<120778, 120778>>, <<125184, 125217>>>>

LaterRanges ==
    <<<<888, 889>>, <<896, 899>>, <<907, 907>>, <<909, 909>>, <<930, 930>>, <<1328, 1328>>,
      <<1367, 1368>>, <<1376, 1376>>, <<1416, 1416>>, <<1419, 1420>>, <<1424, 1424>>,
      <<1480, 1487>>, <<1515, 1519>>, <<1525, 1535>>, <<1806, 1806>>, <<1867, 1868>>,
      <<1970, 1983>>, <<2043, 2044>>, <<2094, 2095>>, <<2111, 2111>>, <<2140, 2141>>,
      <<2143, 2143>>, <<2155, 2183>>, <<2185, 2191>>, <<2194, 2199>>, <<2229, 2229>>,
      <<2238, 2249>>, <<2436, 2436>>, <<2445, 2446>>, <<2449, 2450>>, <<2473, 2473>>,
      <<2481, 2481>>, <<2483, 2485>>, <<2490, 2491>>, <<2501, 2502>>, <<2505, 2506>>,
      <<2511, 2518>>, <<2520, 2523>>, <<2526, 2526>>, <<2532, 2533>>, <<2559, 2560>>,
      <<2564, 2564>>, <<2571, 2574>>, <<2577, 2578>>, <<2601, 2601>>, <<2609, 2609>>,
      <<2612, 2612>>, <<2615, 2615>>, <<2618, 2619>>, <<2621, 2621>>, <<2627, 2630>>,
      <<2633, 2634>>, <<2638, 2640>>, <<2642, 2648>>, <<2653, 2653>>, <<2655, 2661>>,
      <<2679, 2688>>, <<2692, 2692>>, <<2702, 2702>>, <<2706, 2706>>, <<2729, 2729>>,
      <<2737, 2737>>, <<2740, 2740>>, <<2746, 2747>>, <<2758, 2758>>, <<2762, 2762>>,
      <<2766, 2767>>, <<2769, 2783>>, <<2788, 2789>>, <<2802, 2808>>, <<2816, 2816>>,
      <<2820, 2820>>, <<2829, 2830>>, <<2833, 2834>>, <<2857, 2857>>, <<2865, 2865>>,
      <<2868, 2868>>, <<2874, 2875>>, <<2885, 2886>>, <<2889, 2890>>, <<2894, 2900>>,
      <<2904, 2907>>, <<2910, 2910>>, <<2916, 2917>>, <<2936, 2945>>, <<2948, 2948>>,
      <<2955, 2957>>, <<2961, 2961>>, <<2966, 2968>>, <<2971, 2971>>, <<2973, 2973>>,
      <<2976, 2978>>, <<2981, 2983>>, <<2987, 2989>>, <<3002, 3005>>, <<3011, 3013>>,
      <<3017, 3017>>, <<3022, 3023>>, <<3025, 3030>>, <<3032, 3045>>, <<3067, 3071>>,
      <<3085, 3085>>, <<3089, 3089>>, <<3113, 3113>>, <<3130, 3131>>, <<3141, 3141>>,
      <<3145, 3145>>, <<3150, 3156>>, <<3159, 3159>>, <<3163, 3167>>, <<3172, 3173>>,
      <<3184, 3190>>, <<3213, 3213>>, <<3217, 3217>>, <<3241, 3241>>, <<3252, 3252>>,
      <<3258, 3259>>, <<3269, 3269>>, <<3273, 3273>>, <<3278, 3284>>, <<3287, 3293>>,
      <<3295, 3295>>, <<3300, 3301>>, <<3312, 3312>>, <<3315, 3327>>, <<3332, 3332>>,
      <<3341, 3341>>, <<3345, 3345>>, <<3397, 3397>>, <<3401, 3401>>, <<3408, 3411>>,
      <<3428, 3429>>, <<3456, 3456>>, <<3460, 3460>>, <<3479, 3481>>, <<3506, 3506>>,
      <<3516, 3516>>, <<3518, 3519>>, <<3527, 3529>>, <<3531, 3534>>, <<3541, 3541>>,
      <<3543, 3543>>, <<3552, 3557>>, <<3568, 3569>>, <<3573, 3584>>, <<3643, 3646>>,
      <<3676, 3712>>, <<3715, 3715>>, <<3717, 3718>>, <<3721, 3721>>, <<3723, 3724>>,
      <<3726, 3731>>, <<3736, 3736>>, <<3744, 3744>>, <<3748, 3748>>, <<3750, 3750>>,
      <<3752, 3753>>, <<3756, 3756>>, <<3774, 3775>>, <<3781, 3781>>, <<3783, 3783>>,
      <<3790, 3791>>, <<3802, 3803>>, <<3808, 3839>>, <<3912, 3912>>, <<3949, 3952>>,
      <<3992, 3992>>, <<4029, 4029>>, <<4045, 4045>>, <<4059, 4095>>, <<4294, 4294>>,
      <<4296, 4300>>, <<4302, 4303>>, <<4681, 4681>>, <<4686, 4687>>, <<4695, 4695>>,
      <<4697, 4697>>, <<4702, 4703>>, <<4745, 4745>>, <<4750, 4751>>, <<4785, 4785>>,
      <<4790, 4791>>, <<4799, 4799>>, <<4801, 4801>>, <<4806, 4807>>, <<4823, 4823>>,
      <<4881, 4881>>, <<4886, 4887>>, <<4955, 4956>>, <<4989, 4991>>, <<5018, 5023>>,
      <<5110, 5111>>, <<5118, 5119>>, <<5789, 5791>>, <<5881, 5887>>, <<5901, 5901>>,
      <<5910, 5919>>, <<5943, 5951>>, <<5972, 5983>>, <<5997, 5997>>, <<6001, 6001>>,
      <<6004, 6015>>, <<6110, 6111>>, <<6122, 6127>>, <<6138, 6143>>, <<6170, 6175>>,
      <<6264, 6271>>, <<6315, 6319>>, <<6390, 6399>>, <<6431, 6431>>, <<6444, 6447>>,
      <<6460, 6463>>, <<6465, 6467>>, <<6510, 6511>>, <<6517, 6527>>, <<6572, 6575>>,
      <<6602, 6607>>, <<6619, 6621>>, <<6684, 6685>>, <<6751, 6751>>, <<6781, 6782>>,
      <<6794, 6799>>, <<6810, 6815>>, <<6830, 6831>>, <<6863, 6911>>, <<6988, 6991>>,
      <<7039, 7039>>, <<7156, 7163>>, <<7224, 7226>>, <<7242, 7244>>, <<7305, 7359>>,
      <<7368, 7375>>, <<7410, 7411>>, <<7418, 7423>>, <<7958, 7959>>, <<7966, 7967>>,
      <<8006, 8007>>, <<8014, 8015>>, <<8024, 8024>>, <<8026, 8026>>, <<8028, 8028>>,
      <<8030, 8030>>, <<8062, 8063>>, <<8117, 8117>>, <<8133, 8133>>, <<8148, 8149>>,
      <<8156, 8156>>, <<8176, 8177>>, <<8181, 8181>>, <<8191, 8191>>, <<8293, 8293>>,
      <<8306, 8307>>, <<8335, 8335>>, <<8349, 8351>>, <<8385, 8399>>, <<8433, 8447>>,
      <<8588, 8591>>, <<9255, 9279>>, <<9291, 9311>>, <<11124, 11125>>, <<11158, 11158>>,
      <<11311, 11311>>, <<11359, 11359>>, <<11508, 11512>>, <<11558, 11558>>, <<11560, 11564>>,
      <<11566, 11567>>, <<11624, 11630>>, <<11633, 11646>>, <<11671, 11679>>, <<11687, 11687>>,
      <<11695, 11695>>, <<11703, 11703>>, <<11711, 11711>>, <<11719, 11719>>, <<11727, 11727>>,
      <<11735, 11735>>, <<11743, 11743>>, <<11870, 11903>>, <<11930, 11930>>, <<12020, 12031>>,
      <<12246, 12271>>, <<12284, 12287>>, <<12352, 12352>>, <<12439, 12440>>, <<12544, 12548>>,
      <<12591, 12592>>, <<12687, 12687>>, <<12731, 12735>>, <<12772, 12783>>, <<12831, 12831>>,
      <<19894, 19903>>, <<40939, 40959>>, <<42125, 42127>>, <<42183, 42191>>, <<42540, 42559>>,
      <<42744, 42751>>, <<42927, 42927>>, <<42936, 42998>>, <<43053, 43055>>, <<43066, 43071>>,
      <<43128, 43135>>, <<43206, 43213>>, <<43226, 43231>>, <<43262, 43262>>, <<43348, 43358>>,
      <<43389, 43391>>, <<43470, 43470>>, <<43482, 43485>>, <<43519, 43519>>, <<43575, 43583>>,
      <<43598, 43599>>, <<43610, 43611>>, <<43715, 43738>>, <<43767, 43776>>, <<43783, 43784>>,
      <<43791, 43792>>, <<43799, 43807>>, <<43815, 43815>>, <<43823, 43823>>, <<43878, 43881>>,
      <<43884, 43887>>, <<44014, 44015>>, <<44026, 44031>>, <<55204, 55215>>, <<55239, 55242>>,
      <<55292, 55295>>, <<64110, 64111>>, <<64218, 64255>>, <<64263, 64274>>, <<64280, 64284>>,
      <<64311, 64311>>, <<64317, 64317>>, <<64319, 64319>>, <<64322, 64322>>, <<64325, 64325>>,
      <<64451, 64466>>, <<64912, 64913>>, <<64968, 64974>>, <<65050, 65055>>, <<65107, 65107>>,
      <<65127, 65127>>, <<65132, 65135>>, <<65141, 65141>>, <<65277, 65278>>, <<65280, 65280>>,
      <<65471, 65473>>, <<65480, 65481>>, <<65488, 65489>>, <<65496, 65497>>, <<65501, 65503>>,
      <<65511, 65511>>, <<65519, 65528>>, <<65548, 65548>>, <<65575, 65575>>, <<65595, 65595>>,
      <<65598, 65598>>, <<65614, 65615>>, <<65630, 65663>>, <<65787, 65791>>, <<65795, 65798>>,
      <<65844, 65846>>, <<65935, 65935>>, <<65949, 65951>>, <<65953, 65999>>, <<66046, 66175>>,
      <<66205, 66207>>, <<66257, 66271>>, <<66300, 66303>>, <<66340, 66348>>, <<66379, 66383>>,
      <<66427, 66431>>, <<66462, 66462>>, <<66500, 66503>>, <<66518, 66559>>, <<66718, 66719>>,
      <<66730, 66735>>, <<66772, 66775>>, <<66812, 66815>>, <<66856, 66863>>, <<66916, 66926>>,
      <<66928, 67071>>, <<67383, 67391>>, <<67414, 67423>>, <<67432, 67583>>, <<67590, 67591>>,
      <<67593, 67593>>, <<67638, 67638>>, <<67641, 67643>>, <<67645, 67646>>, <<67670, 67670>>,
      <<67743, 67750>>, <<67760, 67807>>, <<67827, 67827>>, <<67830, 67834>>, <<67868, 67870>>,
      <<67898, 67902>>, <<67904, 67967>>, <<68024, 68027>>, <<68048, 68049>>, <<68100, 68100>>,
      <<68103, 68107>>, <<68116, 68116>>, <<68120, 68120>>, <<68148, 68151>>, <<68155, 68158>>,
      <<68169, 68175>>, <<68185, 68191>>, <<68256, 68287>>, <<68327, 68330>>, <<68343, 68351>>,
      <<68406, 68408>>, <<68438, 68439>>, <<68467, 68471>>, <<68498, 68504>>, <<68509, 68520>>,
      <<68528, 68607>>, <<68681, 68735>>, <<68787, 68799>>, <<68851, 68857>>, <<68864, 68899>>,
      <<68904, 69215>>, <<69247, 69290>>, <<69294, 69404>>, <<69415, 69445>>, <<69466, 69505>>,
      <<69514, 69572>>, <<69580, 69631>>, <<69710, 69713>>, <<69745, 69746>>, <<69749, 69758>>,
      <<69827, 69836>>, <<69838, 69839>>, <<69865, 69871>>, <<69882, 69887>>, <<69941, 69941>>,
      <<69956, 69956>>, <<69959, 69967>>, <<70007, 70015>>, <<70112, 70112>>, <<70133, 70143>>,
      <<70162, 70162>>, <<70207, 70271>>, <<70279, 70279>>, <<70281, 70281>>, <<70286, 70286>>,
      <<70302, 70302>>, <<70314, 70319>>, <<70379, 70383>>, <<70394, 70399>>, <<70404, 70404>>,
      <<70413, 70414>>, <<70417, 70418>>, <<70441, 70441>>, <<70449, 70449>>, <<70452, 70452>>,
      <<70458, 70458>>, <<70469, 70470>>, <<70473, 70474>>, <<70478, 70479>>, <<70481, 70486>>,
      <<70488, 70492>>, <<70500, 70501>>, <<70509, 70511>>, <<70517, 70655>>, <<70748, 70748>>,
      <<70751, 70783>>, <<70856, 70863>>, <<70874, 71039>>, <<71094, 71095>>, <<71134, 71167>>,
      <<71237, 71247>>, <<71258, 71263>>, <<71277, 71295>>, <<71352, 71352>>, <<71354, 71359>>,
      <<71370, 71423>>, <<71450, 71452>>, <<71468, 71471>>, <<71488, 71723>>, <<71740, 71839>>,
      <<71923, 71934>>, <<71936, 71983>>, <<71990, 71990>>, <<71993, 71994>>, <<71999, 71999>>,
      <<72001, 72001>>, <<72007, 72144>>, <<72152, 72153>>, <<72161, 72161>>, <<72163, 72163>>,
      <<72165, 72191>>, <<72264, 72271>>, <<72324, 72325>>, <<72349, 72349>>, <<72355, 72383>>,
      <<72441, 72703>>, <<72713, 72713>>, <<72759, 72759>>, <<72774, 72783>>, <<72813, 72815>>,
      <<72848, 72849>>, <<72872, 72872>>, <<72887, 72959>>, <<72967, 72967>>, <<72970, 72970>>,
      <<73015, 73017>>, <<73019, 73019>>, <<73022, 73022>>, <<73032, 73039>>, <<73050, 73097>>,
      <<73103, 73103>>, <<73106, 73106>>, <<73112, 73458>>, <<73465, 73663>>, <<73714, 73726>>,
      <<74650, 74751>>, <<74863, 74863>>, <<74869, 74879>>, <<75076, 77808>>, <<77811, 77823>>,
      <<78895, 78895>>, <<78905, 82943>>, <<83527, 92159>>, <<92729, 92735>>, <<92767, 92767>>,
      <<92778, 92781>>, <<92784, 92879>>, <<92910, 92911>>, <<92918, 92927>>, <<92998, 93007>>,
      <<93018, 93018>>, <<93026, 93026>>, <<93048, 93052>>, <<93072, 93823>>, <<93851, 93951>>,
      <<94021, 94030>>, <<94088, 94094>>, <<94112, 94175>>, <<94179, 94179>>, <<94181, 94191>>,
      <<94194, 94207>>, <<100333, 100351>>, <<101107, 110591>>, <<110879, 110959>>,
      <<111356, 113663>>, <<113771, 113775>>, <<113789, 113791>>, <<113801, 113807>>,
      <<113818, 113819>>, <<113828, 118527>>, <<118574, 118575>>, <<118599, 118607>>,
      <<118724, 118783>>, <<119030, 119039>>, <<119079, 119080>>, <<119275, 119295>>,
      <<119366, 119519>>, <<119540, 119551>>, <<119639, 119647>>, <<119673, 119807>>,
      <<119893, 119893>>, <<119965, 119965>>, <<119968, 119969>>, <<119971, 119972>>,
      <<119975, 119976>>, <<119981, 119981>>, <<119994, 119994>>, <<119996, 119996>>,
      <<120004, 120004>>, <<120070, 120070>>, <<120075, 120076>>, <<120085, 120085>>,
      <<120093, 120093>>, <<120122, 120122>>, <<120127, 120127>>, <<120133, 120133>>,
      <<120135, 120137>>, <<120145, 120145>>, <<120486, 120487>>, <<120780, 120781>>,
      <<121484, 121498>>, <<121504, 121504>>, <<121520, 122879>>, <<122887, 122887>>,
      <<122905, 122906>>, <<122914, 122914>>, <<122917, 122917>>, <<122923, 123183>>,
      <<123191, 123214>>, <<123216, 123565>>, <<123567, 123627>>, <<123632, 123646>>,
      <<123648, 124927>>, <<125125, 125126>>, <<125143, 125183>>, <<125259, 125263>>,
      <<125274, 125277>>, <<125280, 126064>>, <<126133, 126208>>, <<126270, 126463>>,
      <<126468, 126468>>, <<126496, 126496>>, <<126499, 126499>>, <<126501, 126502>>,
      <<126504, 126504>>, <<126515, 126515>>, <<126520, 126520>>, <<126522, 126522>>,
      <<126524, 126529>>, <<126531, 126534>>, <<126536, 126536>>, <<126538, 126538>>,
      <<126540, 126540>>, <<126544, 126544>>, <<126547, 126547>>, <<126549, 126550>>,
      <<126552, 126552>>, <<126554, 126554>>, <<126556, 126556>>, <<126558, 126558>>,
      <<126560, 126560>>, <<126563, 126563>>, <<126565, 126566>>, <<126571, 126571>>,
      <<126579, 126579>>, <<126584, 126584>>, <<126589, 126589>>, <<126591, 126591>>,
      <<126602, 126602>>, <<126620, 126624>>, <<126628, 126628>>, <<126634, 126634>>,
      <<126652, 126703>>, <<126706, 126975>>, <<127020, 127023>>, <<127124, 127135>>,
      <<127151, 127152>>, <<127168, 127168>>, <<127184, 127184>>, <<127222, 127231>>,
      <<127406, 127461>>, <<127491, 127503>>, <<127548, 127551>>, <<127561, 127567>>,
      <<127570, 127583>>, <<127590, 127743>>, <<128728, 128732>>, <<128749, 128751>>,
      <<128765, 128767>>, <<128884, 128895>>, <<128985, 128991>>, <<129004, 129007>>,
      <<129009, 129023>>, <<129036, 129039>>, <<129096, 129103>>, <<129114, 129119>>,
      <<129160, 129167>>, <<129198, 129199>>, <<129202, 129279>>, <<129620, 129631>>,
      <<129646, 129647>>, <<129653, 129655>>, <<129661, 129663>>, <<129671, 129679>>,
      <<129709, 129711>>, <<129723, 129727>>, <<129734, 129743>>, <<129754, 129759>>,
      <<129768, 129775>>, <<129783, 129791>>, <<129939, 129939>>, <<129995, 131069>>,
      <<173783, 173823>>, <<177973, 177983>>, <<178206, 178207>>, <<183970, 183983>>,
      <<191457, 194559>>, <<195102, 196605>>, <<196608, 262141>>, <<262144, 327677>>,
      <<327680, 393213>>, <<393216, 458749>>, <<458752, 524285>>, <<524288, 589821>>,
      <<589824, 655357>>, <<655360, 720893>>, <<720896, 786429>>, <<786432, 851965>>,
      <<851968, 917501>>, <<917504, 917504>>, <<917506, 917535>>, <<917632, 917759>>,
      <<918000, 983037>>>>

InRanges(c, ranges) == \E i \in DOMAIN ranges : ranges[i][1] <= c /\ c <= ranges[i][2]
\* the table of the toolchain has c in the ranges, which are of Unicode 10.0
InTable(c, ranges) == IF InRanges(c, LaterRanges) THEN OutsideModel(c) ELSE InRanges(c, ranges)
\* unicode.IsLetter(c)
IsLetter(c) ==
    IF c < RuneSelf THEN (65 <= c /\ c <= 90) \/ (97 <= c /\ c <= 122)
    ELSE InTable(c, LetterRanges)
\* unicode.IsDigit(c)
IsDigitRune(c) == IF c < RuneSelf THEN IsDigit(c) ELSE InTable(c, DigitRanges)
\* unicode.IsUpper(c)
IsUpper(c) == IF c < RuneSelf THEN 65 <= c /\ c <= 90 ELSE InTable(c, UpperRanges)

\* the name of the field is not exported (PkgPath is set): it begins with no
\* upper case letter
isUnexported(sf) == ~IsUpper(DecodeRune(sf.goName).c)
\* v.Field(i)
FieldFlag(fl, sf) ==
    Flag(fl.addr, fl.sticky \/ (isUnexported(sf) /\ ~sf.anonymous),
         isUnexported(sf) /\ sf.anonymous)

\* isValidTag(s): the punctuation of "!#$%&()*+-./:<=>?@[]^_{|}~ ", letters and
\* digits
isValidRune(c) ==
    \/ c \in {33, 35, 36, 37, 38, 40, 41, 42, 43, 45, 46, 47, 58, 60, 61, 62,
              63, 64, 91, 93, 94, 95, 123, 124, 125, 126, 32}
    \/ IsLetter(c)
    \/ IsDigitRune(c)
isValidRunes(rs) == \A i \in DOMAIN rs : isValidRune(rs[i])
isValidTag(s) == s # <<>> /\ isValidRunes(Runes(s))

\* byIndex.Less: the index sequences in lexical order, a prefix first
RECURSIVE byIndexLess(_, _)
byIndexLess(x, y) ==
    IF x = <<>> THEN y # <<>>
    ELSE IF y = <<>> THEN FALSE
    ELSE IF Head(x) # Head(y) THEN Head(x) < Head(y)
    ELSE byIndexLess(Tail(x), Tail(y))

\* the less function of typeFields' sort.Slice: by name, then depth, then
\* "name came from the tag", then index sequence
fieldLess(x, y) ==
    IF x.name # y.name THEN LessBytes(x.name, y.name)
    ELSE IF Len(x.index) # Len(y.index) THEN Len(x.index) < Len(y.index)
    ELSE IF x.tag # y.tag THEN x.tag
    ELSE byIndexLess(x.index, y.index)

\* dominantField without the conflicts: the first of the sorted fields
dominantFieldFirst(fields) == [ok |-> TRUE, f |-> fields[1]]

\* dominantField(fields): [ok, f], for the fields of one name in sorted order
dominantField(fields) ==
    LET length == Len(fields[1].index)
        short == SelectSeq(fields, LAMBDA f : Len(f.index) <= length)
        tagged == {i \in 1..Len(short) : short[i].tag}
    IN IF Cardinality(tagged) > 1 THEN [ok |-> FALSE, f |-> fields[1]]
       ELSE IF Cardinality(tagged) = 1
       THEN [ok |-> TRUE, f |-> short[CHOOSE i \in tagged : TRUE]]
       ELSE IF Len(short) > 1 THEN [ok |-> FALSE, f |-> fields[1]]
       ELSE [ok |-> TRUE, f |-> short[1]]

\* number of times the type t was queued
CountOf(queued, t) == Cardinality({i \in 1..Len(queued) : queued[i] = t})

\* the field typeFields records for the field sf, at index i of the queued
\* struct f, of the type ft behind the pointer, with the name of the tag and
\* the name name1 it goes by
fieldOf(f, i, sf, ft, name, name1) ==
    [name |-> IF sf.typ = sdoType THEN B(<<"_", "S", "D", "O", "N", "a", "m", "e">>) ELSE name1,
     tag |-> name # <<>>,
     index |-> Append(f.index, i),
     typ |-> ft,
     omitEmpty |-> sf.tag.omitempty,
     value |-> IF sf.typ = sdoType
               THEN [t |-> sdoNameT, s |-> Enclose(B(<<"'">>), name1)]
               ELSE NilV]
\* fld once, or twice when the struct was queued more than once
fieldsOf(dup, fld) == IF dup THEN <<fld, fld>> ELSE <<fld>>

\* the body of the loop of typeFields for a field that is not skipped: the
\* field is recorded, or its struct type is queued for the next level
typeFieldsField(f, i, dup, acc, sf, ft, name) ==
    IF name # <<>> \/ ~sf.anonymous \/ Kind(ft) # "struct"
    THEN [acc EXCEPT !.fields = @ \o fieldsOf(dup,
                        fieldOf(f, i, sf, ft, name, IF name # <<>> THEN name ELSE sf.goName))]
    ELSE [acc EXCEPT !.nextCount = Append(@, ft),
                     !.next = IF CountOf(acc.nextCount, ft) = 0
                              THEN Append(@, [index |-> Append(f.index, i), typ |-> ft])
                              ELSE @]

\* the loop of typeFields over the fields of the queued struct f, at field i;
\* dup: f.typ was queued more than once; acc: fields found, next and nextCount
RECURSIVE typeFieldsScan(_, _, _, _)
typeFieldsScan(f, i, dup, acc) ==
    IF i > Len(f.typ.fields) THEN acc
    ELSE LET sf == f.typ.fields[i]
             et == IF sf.typ.k = "ptr" THEN sf.typ.elem ELSE sf.typ
             skipped == \/ sf.tag.dash
                        \/ IF sf.anonymous THEN isUnexported(sf) /\ Kind(et) # "struct"
                           ELSE isUnexported(sf) /\ ~sf.tag.public
         IN IF skipped THEN typeFieldsScan(f, i + 1, dup, acc)
            ELSE typeFieldsScan(f, i + 1, dup,
                     typeFieldsField(f, i, dup, acc, sf,
                         IF sf.typ.k = "ptr" THEN sf.typ.elem ELSE sf.typ,
                         IF isValidTag(sf.tag.name) THEN sf.tag.name ELSE <<>>))

\* the loop of typeFields over the structs of one level
RECURSIVE typeFieldsLevel(_, _, _, _)
typeFieldsLevel(current, ci, count, acc) ==
    IF ci > Len(current) THEN acc
    ELSE IF current[ci].typ \in acc.visited
    THEN typeFieldsLevel(current, ci + 1, count, acc)
    ELSE typeFieldsLevel(current, ci + 1, count,
             typeFieldsScan(current[ci], 1, CountOf(count, current[ci].typ) > 1,
                            [acc EXCEPT !.visited = @ \cup {current[ci].typ}]))

\* the breadth-first search of typeFields, level by level
RECURSIVE typeFieldsSearch(_)
typeFieldsSearch(acc) ==
    IF acc.next = <<>> THEN acc.fields
    ELSE typeFieldsSearch(typeFieldsLevel(acc.next, 1, acc.nextCount,
                                          [acc EXCEPT !.next = <<>>, !.nextCount = <<>>]))

\* the fields found by the search: sorted, reduced to the dominant field of
\* every name and sorted by index sequence
typeFieldsOf(fields) ==
    LET keep(f) ==
            LET same == SelectSeq(fields, LAMBDA g : g.name = f.name)
                dom == dominantField(same)
            IN Len(same) = 1 \/ (dom.ok /\ dom.f = f)
    IN SortSeq(SelectSeq(fields, keep), LAMBDA x, y : byIndexLess(x.index, y.index))

\* typeFields(t): the fields Oscript recognises for the struct type t, each
\* [name, tag, index, typ, omitEmpty, value]
typeFields(t) ==
    typeFieldsOf(SortSeq(typeFieldsSearch([fields |-> <<>>, next |-> <<[index |-> <<>>, typ |-> t]>>,
                                           nextCount |-> <<>>, visited |-> {}]),
                         fieldLess))

cachedTypeFields(t) == typeFields(t)

\* reflectWithString.resolve and what it calls.
\* the decimal digits of n, at least w of them (time's appendInt)
PadTo(ds, w, zero) == [i \in 1..(w - Len(ds)) |-> zero] \o ds
PadFrom(n, w, zero) == PadTo(DigitsFrom(n, zero), w, zero)
Pad(n, w) == PadFrom(n, w, Ord["0"])
\* the layout "2006-01-02T15:04:05Z" with the bytes c of "0-T:Z"
AppendFormat(t, c) ==
    PadFrom(t.year, 4, c[1]) \o <<c[2]>> \o PadFrom(t.month, 2, c[1]) \o <<c[2]>>
        \o PadFrom(t.day, 2, c[1]) \o <<c[3]>> \o PadFrom(t.hour, 2, c[1]) \o <<c[4]>>
        \o PadFrom(t.min, 2, c[1]) \o <<c[4]>> \o PadFrom(t.sec, 2, c[1]) \o <<c[5]>>

\* time.Time.MarshalText of a UTC time of whole seconds: RFC 3339, an error
\* for a year outside of [0,9999]
TimeMarshalText(t) ==
    IF t.year < 0 \/ t.year > 9999
    THEN [s |-> <<>>, err |-> Err("Time.MarshalText: year outside of range [0,9999]")]
    ELSE [s |-> AppendFormat(t, B(<<"0", "-", "T", ":", "Z">>)), err |-> NoErr]

\* tm.MarshalText(): [s, err].  unmarshalerText.MarshalText gives A + ":" + B;
\* a method with a value receiver panics when it is called through a nil pointer
MarshalText(kv) ==
    LET of(x) == IF x.t = TimeT THEN TimeMarshalText(x)
                 ELSE [s |-> x.f[1].s \o B(<<":">>) \o x.f[2].s, err |-> NoErr]
    IN IF kv.t.k = "ptr" THEN (IF kv.nil THEN [s |-> <<>>, err |-> Panic] ELSE of(kv.v))
       ELSE of(kv)

\* resolve of the key kv with the flags fl: [s, err], s the string the key is
\* written and sorted as.  w.v.Interface() panics for a read-only key.
resolve(kv, fl) ==
    IF Kind(kv.t) = "string" THEN [s |-> kv.s, err |-> NoErr]
    ELSE IF ~CanInterface(fl) THEN [s |-> <<>>, err |-> Panic]
    ELSE IF ImplementsText(kv.t) THEN MarshalText(kv)
    ELSE IF Kind(kv.t) = "int" THEN [s |-> FormatInt(kv.n), err |-> NoErr]
    ELSE IF Kind(kv.t) = "uint" THEN [s |-> Digits(kv.n), err |-> NoErr]
    ELSE [s |-> <<>>, err |-> Panic]

\* the key a map stores for the key value kv: the string, the number, the
\* fields of a struct, the identity id of a pointer with what it points to
KeyOf(kv) ==
    IF Kind(kv.t) = "string" THEN kv.s
    ELSE IF kv.t = TextT THEN <<kv.f[1].s, kv.f[2].s>>
    ELSE IF kv.t = TimeT THEN <<kv.year, kv.month, kv.day, kv.hour, kv.min, kv.sec>>
    ELSE kv.n
KeyV(kt, key) ==
    IF Kind(kt) = "string" THEN [t |-> kt, s |-> key]
    ELSE IF kt = TextT THEN TextV(key[1], key[2])
    ELSE IF kt = TimeT THEN TimeV(key[1], key[2], key[3], key[4], key[5], key[6])
    ELSE IF kt.k = "ptr" THEN (IF key.v = NilV THEN NilPtr(kt.elem) ELSE PtrV(key.v))
    ELSE [t |-> kt, n |-> key]
\* the key of pointer type that is the pointer id to v, the nil pointer
PtrKey(id, v) == [id |-> id, v |-> v]
NilKey == [id |-> 0, v |-> NilV]

\* w.s of the key after resolve has returned nil
\* the first loop of mapEncoder.encode: sv[i].resolve() of every key, as the
\* function from the keys to [s, err]
resolveKeys(kt, keys, fl) == [x \in keys |-> resolve(KeyV(kt, x), fl)]

\* The order of v.MapKeys() is not specified and sort.Slice is not stable: mk
\* lists keys, each [kt, x], in the order the run happens to give them; the
\* place of a key in mk, 0 for a key mk does not list
Rank(mk, kt, x) ==
    LET at == {i \in DOMAIN mk : mk[i].kt = kt /\ mk[i].x = x}
    IN IF at = {} THEN 0 ELSE CHOOSE i \in at : \A j \in at : i <= j

\* the keys of a map from the greatest resolved string to the least
RECURSIVE SortKeysDescending(_, _, _, _)
SortKeysDescending(kt, keys, mk, sv) ==
    IF keys = {} THEN <<>>
    ELSE LET last == {x \in keys : \A y \in keys : ~LessBytes(sv[x].s, sv[y].s)}
             m == CHOOSE x \in last : \A y \in last : Rank(mk, kt, x) <= Rank(mk, kt, y)
         IN <<m>> \o SortKeysDescending(kt, keys \ {m}, mk, sv)

\* sort.Slice(sv, sv[i].s < sv[j].s) over the keys of a map, sv[x].s the
\* string of the key x; keys of one string stand in the order of mk
RECURSIVE SortKeys(_, _, _, _)
SortKeys(kt, keys, mk, sv) ==
    IF keys = {} THEN <<>>
    ELSE LET first == {x \in keys : \A y \in keys : ~LessBytes(sv[y].s, sv[x].s)}
             m == CHOOSE x \in first : \A y \in first : Rank(mk, kt, x) <= Rank(mk, kt, y)
         IN <<m>> \o SortKeys(kt, keys \ {m}, mk, sv)

\* newSliceEncoder(t): byte slices get special treatment
newSliceEncoder(t) ==
    IF t = sdoNameT THEN "encodeByteSlice"
    ELSE IF /\ Kind(t.elem) = "uint" /\ t.elem.bits = 8
            /\ ~ImplementsMarshaler(PtrT(t.elem)) /\ ~ImplementsText(PtrT(t.elem))
    THEN "encodeByteSlice"
    ELSE "sliceEncoder"

\* newMapEncoder(t): the encoder chosen for a map type
newMapEncoder(t) ==
    IF Kind(t.key) \in {"string", "int", "uint"} \/ ImplementsText(t.key) THEN "mapEncoder"
    ELSE "unsupportedTypeEncoder"

\* newTypeEncoder(t, allowAddr): the encoder chosen for the type; the
\* encoder newCondAddrEncoder(canAddrEnc, newTypeEncoder(t, false)) is named
\* after its canAddrEnc
newTypeEncoder(t, allowAddr) ==
    IF ImplementsMarshalerBuf(t) THEN "marshalerBufEncoder"
    ELSE IF Kind(t) # "ptr" /\ allowAddr /\ ImplementsMarshalerBuf(PtrT(t))
    THEN "condAddrEncoder(addrMarshalerBufEncoder)"
    ELSE IF ImplementsMarshaler(t) THEN "marshalerEncoder"
    ELSE IF Kind(t) # "ptr" /\ allowAddr /\ ImplementsMarshaler(PtrT(t))
    THEN "condAddrEncoder(addrMarshalerEncoder)"
    ELSE CASE Kind(t) = "bool" -> "boolEncoder"
           [] Kind(t) = "int" -> "intEncoder"
           [] Kind(t) = "uint" -> "uintEncoder"
           [] Kind(t) = "float" -> "floatEncoder"
           [] Kind(t) = "string" -> "stringEncoder"
           [] Kind(t) = "iface" -> "interfaceEncoder"
           [] Kind(t) = "struct" -> IF t = TimeT THEN "timeEncoder" ELSE "structEncoder"
           [] Kind(t) = "map" -> newMapEncoder(t)
           [] Kind(t) = "slice" -> newSliceEncoder(t)
           [] Kind(t) = "array" -> "arrayEncoder"
           [] Kind(t) = "ptr" -> "ptrEncoder"
           [] OTHER -> "unsupportedTypeEncoder"

undefined == Ord["?"]

\* reflectValue(v, fl, mk): fl are the flags of v, mk the order of the map keys
RECURSIVE reflectValue(_, _, _)

invalidValueEncoder == Ok(<<undefined>>)

boolEncoder(v) == Ok(IF v.b THEN B(<<"t", "r", "u", "e">>) ELSE B(<<"f", "a", "l", "s", "e">>))

intEncoder(v) == Ok(FormatInt(v.n))

\* strconv.AppendUint(v.Uint(), 10)
uintEncoder(v) == Ok(Digits(v.n))

stringEncoder(v) == Ok(string(v.s))

\* math.IsInf(f, 0) || math.IsNaN(f)
NonFinite(f) == f.class # "finite"

\* strconv.AppendFloat(f, fmt, -1, bits) for the finite f, fmt "f" or "e": the
\* shortest digits that give f back, which are the digits d of f
AppendFloat(f, fmt) ==
    LET sign == IF f.neg THEN B(<<"-">>) ELSE <<>>
        nd == Len(f.d)
        ds == [i \in 1..nd |-> Ord["0"] + f.d[i]]
        zeros(n) == [i \in 1..n |-> Ord["0"]]
        exp == IF nd = 0 THEN 0 ELSE f.dp - 1
        abs == IF exp < 0 THEN 0 - exp ELSE exp
    IN IF fmt = "f"
       THEN sign
            \o (IF f.dp <= 0 THEN B(<<"0">>)
                ELSE IF f.dp >= nd THEN ds \o zeros(f.dp - nd)
                ELSE SubSeq(ds, 1, f.dp))
            \o (IF nd > f.dp /\ nd > 0
                THEN B(<<".">>) \o zeros(0 - f.dp)
                     \o SubSeq(ds, (IF f.dp > 0 THEN f.dp ELSE 0) + 1, nd)
                ELSE <<>>)
       ELSE sign
            \o (IF nd = 0 THEN B(<<"0">>) ELSE <<ds[1]>>)
            \o (IF nd > 1 THEN B(<<".">>) \o SubSeq(ds, 2, nd) ELSE <<>>)
            \o B(<<"e">>) \o (IF exp < 0 THEN B(<<"-">>) ELSE B(<<"+">>))
            \o (IF abs < 10 THEN B(<<"0">>) ELSE <<>>) \o Digits(abs)

\* floatEncoder.encode: &UnsupportedValueError{} for an infinity and for NaN;
\* the format is 'e' when abs != 0 and abs < 1e-6 || abs >= 1e21, and e-09 is
\* cleaned up to e-9
floatEncoder(v) ==
    LET e == v.d # <<>> /\ (v.dp <= -6 \/ v.dp >= 22)
        b == AppendFloat(v, IF e THEN "e" ELSE "f")
        n == Len(b)
    IN IF NonFinite(v) THEN [buf |-> <<>>, err |-> Err("UnsupportedValueError")]
       ELSE IF e /\ n >= 4 /\ b[n - 3] = Ord["e"] /\ b[n - 2] = Ord["-"]
               /\ b[n - 1] = Ord["0"]
       THEN Ok(<<Ord["G"]>> \o SubSeq(b, 1, n - 2) \o <<b[n]>>)
       ELSE Ok(<<Ord["G"]>> \o b)

\* &MarshalerError{v.Type(), err}
MarshalerError(err) == [Err("MarshalerError") EXCEPT !.msg = err.kind]

\* m.MarshalOscript() of the receiver m: [b, err].  Error gives "E" and the
\* number, Val 'val', *Ref 'ref'; a value of the caller's type gives what it
\* holds
MarshalOscript(m) ==
    IF m.t = ErrorT THEN [b |-> B(<<"E">>) \o FormatInt(m.n), err |-> NoErr]
    ELSE IF m.t = ValT THEN [b |-> B(<<"'", "v", "a", "l", "'">>), err |-> NoErr]
    ELSE IF m.t = RefT THEN [b |-> B(<<"'", "r", "e", "f", "'">>), err |-> NoErr]
    ELSE [b |-> m.b, err |-> m.err]

\* marshalerEncoder after b, err := m.MarshalOscript() (r) and, if err is nil,
\* c = compact(&e.Buffer, b)
marshalerCompacted(r, c) ==
    IF r.err # NoErr THEN [buf |-> <<>>, err |-> MarshalerError(r.err)]
    ELSE IF c.err # NoErr THEN [buf |-> <<>>, err |-> MarshalerError(c.err)]
    ELSE Ok(c.dst)

\* marshalerEncoder(e, v): v.Interface() panics for a read-only v
marshalerEncoder(v, fl) ==
    LET m == MarshalOscript(IF v.t.k = "ptr" THEN v.v ELSE v)
    IN IF v.t.k = "ptr" /\ v.nil THEN Ok(<<undefined>>)
       ELSE IF ~CanInterface(fl) THEN [buf |-> <<>>, err |-> Panic]
       ELSE marshalerCompacted(m, compact(<<>>, m.b))

\* addrMarshalerEncoder(e, v): va := v.Addr() is never nil and keeps the
\* read-only flags of v, va.Interface() panics for them
addrMarshalerEncoder(v, fl) ==
    LET m == MarshalOscript(v)
    IN IF ~CanInterface(AddrFlag(fl)) THEN [buf |-> <<>>, err |-> Panic]
       ELSE marshalerCompacted(m, compact(<<>>, m.b))

\* v.Elem() of an interface is not addressable
interfaceEncoder(v, fl, mk) ==
    IF v.nil THEN Ok(<<undefined>>) ELSE reflectValue(v.v, IfaceElemFlag(fl), mk)

unsupportedTypeEncoder(v) == [buf |-> <<>>, err |-> Err("UnsupportedTypeError")]

\* timeEncoder(e, v): v.Interface() panics for a read-only v
timeEncoder(v, fl) ==
    IF ~CanInterface(fl) THEN [buf |-> <<>>, err |-> Panic]
    ELSE Ok(B(<<"D", "/">>) \o FormatInt(v.year) \o B(<<"/">>) \o FormatInt(v.month)
            \o B(<<"/">>) \o FormatInt(v.day) \o B(<<":">>) \o FormatInt(v.hour)
            \o B(<<":">>) \o FormatInt(v.min) \o B(<<":">>) \o FormatInt(v.sec))

\* (*FileAttr).MarshalOscriptBuf(buf), f the FileAttr the receiver points to:
\* the bytes written, the error is nil
MarshalOscriptBuf(f) ==
    Ok(B(<<"A", "<", "1", ",", "?", ",", "'", "C", "r", "e", "a", "t", "e", "d", "D", "a", "t",
           "e", "'", "=">>)
       \o timeEncoder(f.f[2], NoFlag).buf
       \o B(<<",", "'", "F", "i", "l", "e", "N", "a", "m", "e", "'", "=">>)
       \o string(f.f[4].s)
       \o B(<<",", "'", "F", "i", "l", "e", "S", "i", "z", "e", "'", "=">>)
       \o FormatInt(f.f[5].n)
       \o B(<<",", "'", "M", "o", "d", "i", "f", "i", "e", "d", "D", "a", "t", "e", "'", "=">>)
       \o timeEncoder(f.f[3], NoFlag).buf
       \o B(<<",", "'", "_", "S", "D", "O", "N", "a", "m", "e", "'", "=", "'", "C", "o", "r",
              "e", ".", "F", "i", "l", "e", "A", "t", "t", "s", "'">>)
       \o B(<<">">>))

\* marshalerBufEncoder(e, v): v's type has the hook, here a *FileAttr;
\* v.Interface() panics for a read-only v
marshalerBufEncoder(v, fl) ==
    IF v.t.k = "ptr" /\ v.nil THEN Ok(<<undefined>>)
    ELSE IF ~CanInterface(fl) THEN [buf |-> <<>>, err |-> Panic]
    ELSE MarshalOscriptBuf(v.v)

\* addrMarshalerBufEncoder(e, v): va := v.Addr() is never nil; the assertion
\* v.Interface().(MarshalerBuf) is made on v, and holds when v's own type has
\* the hook
addrMarshalerBufEncoder(v, fl) ==
    IF ~CanInterface(fl) THEN [buf |-> <<>>, err |-> Panic]
    ELSE IF ~ImplementsMarshalerBuf(v.t) THEN Ok(<<undefined>>)
    ELSE MarshalOscriptBuf(v.v)

\* sdoName.encode: the encoder of a field of type SDOName writes the tag
sdoNameEncode(sn) == Ok(sn.s)

\* the walk of structEncoder.encode along f.index from fv with the flags fl:
\* [ok, v, fl], not ok when a nil pointer is on the way
RECURSIVE fieldWalk(_, _, _)
fieldWalk(fv, fl, index) ==
    IF index = <<>> THEN [ok |-> TRUE, v |-> fv, fl |-> fl]
    ELSE IF fv.t.k = "ptr"
    THEN IF fv.nil THEN [ok |-> FALSE, v |-> NilV, fl |-> fl]
         ELSE fieldWalk(fv.v.f[Head(index)],
                        FieldFlag(ElemFlag(fl), fv.v.t.fields[Head(index)]), Tail(index))
    ELSE fieldWalk(fv.f[Head(index)], FieldFlag(fl, fv.t.fields[Head(index)]), Tail(index))
fieldByIndex(fv, fl, index) == fieldWalk(fv, fl, index)

\* the field loop of structEncoder.encode, at field i of fields
RECURSIVE structLoop(_, _, _, _, _, _)
RECURSIVE structField(_, _, _, _, _, _, _)
\* ... after the encoder of field i has written r
structField(v, fl, mk, fields, i, buf, r) ==
    IF r.err # NoErr THEN r
    ELSE structLoop(v, fl, mk, fields, i + 1,
            buf \o B(<<",">>) \o string(fields[i].name) \o B(<<"=">>) \o r.buf)
structLoop(v, fl, mk, fields, i, buf) ==
    IF i > Len(fields) THEN Ok(buf \o B(<<">">>))
    ELSE LET f == fields[i]
             fv == fieldByIndex(v, fl, f.index)
         IN IF ~fv.ok \/ (f.omitEmpty /\ isEmptyValue(fv.v))
            THEN structLoop(v, fl, mk, fields, i + 1, buf)
            ELSE structField(v, fl, mk, fields, i, buf,
                             IF f.value # NilV THEN sdoNameEncode(f.value)
                             ELSE reflectValue(fv.v, fv.fl, mk))

structEncoder(v, fl, mk) ==
    structLoop(v, fl, mk, cachedTypeFields(v.t), 1, B(<<"A", "<", "1", ",", "?">>))

\* one round of the second loop of mapEncoder.encode: the key s and the
\* element, whose encoding is r
mapMember(buf, s, r) ==
    IF r.err # NoErr THEN r ELSE Ok(buf \o B(<<",">>) \o string(s) \o B(<<"=">>) \o r.buf)

\* the second loop of mapEncoder.encode, over the keys in sorted order
RECURSIVE mapLoop(_, _, _, _, _, _, _)
mapLoop(v, fl, mk, sv, sorted, i, r) ==
    IF r.err # NoErr THEN r
    ELSE IF i > Len(sorted) THEN Ok(r.buf \o B(<<">">>))
    ELSE mapLoop(v, fl, mk, sv, sorted, i + 1,
                 mapMember(r.buf, sv[sorted[i]].s,
                           reflectValue(v.m[sorted[i]], MapIndexFlag(fl), mk)))

\* mapEncoder.encode: the first loop resolves the keys in the order of
\* v.MapKeys() and stops at the first that fails
mapResolved(v, fl, mk, sv, failed) ==
    IF failed # {}
    THEN LET first == CHOOSE x \in failed :
                         \A y \in failed : Rank(mk, v.t.key, x) <= Rank(mk, v.t.key, y)
         IN [buf |-> <<>>,
             err |-> IF sv[first].err = Panic THEN Panic ELSE MarshalerError(sv[first].err)]
    ELSE mapLoop(v, fl, mk, sv, SortKeys(v.t.key, DOMAIN v.m, mk, sv), 1,
                 Ok(B(<<"A", "<", "1", ",", "?">>)))
mapResolve(v, fl, mk, sv) == mapResolved(v, fl, mk, sv, {x \in DOMAIN v.m : sv[x].err # NoErr})
mapEncoder(v, fl, mk) ==
    IF v.nil THEN Ok(<<undefined>>)
    ELSE mapResolve(v, fl, mk, resolveKeys(v.t.key, DOMAIN v.m, MapIndexFlag(fl)))

\* the element loop of arrayEncoder.encode, at 0-based i
RECURSIVE arrayLoop(_, _, _, _, _)
arrayLoop(v, fl, mk, i, buf) ==
    IF i >= Len(v.e) THEN Ok(buf \o B(<<"}">>))
    ELSE LET r == reflectValue(v.e[i + 1], IndexFlag(fl, v.t), mk)
         IN IF r.err # NoErr THEN r
            ELSE arrayLoop(v, fl, mk, i + 1,
                           buf \o (IF i > 0 THEN B(<<",">>) ELSE <<>>) \o r.buf)

arrayEncoder(v, fl, mk) == arrayLoop(v, fl, mk, 0, B(<<"{">>))

sliceEncoder(v, fl, mk) == IF v.nil THEN Ok(<<undefined>>) ELSE arrayEncoder(v, fl, mk)

\* encodeByteSlice: nil as the undefined value, else the base64 of the bytes
\* between quotes
encodeByteSlice(v) ==
    IF v.t = sdoNameT THEN Ok(B(<<"'">>) \o EncodeBase64(v.s) \o B(<<"'">>))
    ELSE IF v.nil THEN Ok(<<undefined>>)
    ELSE Ok(B(<<"'">>) \o EncodeBase64([i \in DOMAIN v.e |-> v.e[i].n]) \o B(<<"'">>))

\* v.Elem() of a pointer is addressable
ptrEncoder(v, fl, mk) ==
    IF v.nil THEN Ok(<<undefined>>) ELSE reflectValue(v.v, ElemFlag(fl), mk)

\* condAddrEncoder.encode picks the encoder: canAddrEnc if v.CanAddr(), else
\* elseEnc, the encoder newTypeEncoder(t, false)
condAddrEncoder(encoder, v, fl) ==
    IF ~CanAddr(fl) THEN newTypeEncoder(v.t, FALSE)
    ELSE IF encoder = "condAddrEncoder(addrMarshalerBufEncoder)" THEN "addrMarshalerBufEncoder"
    ELSE "addrMarshalerEncoder"

\* valueEncoder(v): typeEncoder(v.Type()), with condAddrEncoder resolved for v
valueEncoder(v, fl) ==
    IF newTypeEncoder(v.t, TRUE) \in {"condAddrEncoder(addrMarshalerBufEncoder)",
                                      "condAddrEncoder(addrMarshalerEncoder)"}
    THEN condAddrEncoder(newTypeEncoder(v.t, TRUE), v, fl)
    ELSE newTypeEncoder(v.t, TRUE)

\* the call of the encoder named encoder on v
encodeWith(encoder, v, fl, mk) ==
    CASE encoder = "boolEncoder" -> boolEncoder(v)
      [] encoder = "intEncoder" -> intEncoder(v)
      [] encoder = "uintEncoder" -> uintEncoder(v)
      [] encoder = "encodeByteSlice" -> encodeByteSlice(v)
      [] encoder = "stringEncoder" -> stringEncoder(v)
      [] encoder = "floatEncoder" -> floatEncoder(v)
      [] encoder = "marshalerEncoder" -> marshalerEncoder(v, fl)
      [] encoder = "addrMarshalerEncoder" -> addrMarshalerEncoder(v, fl)
      [] encoder = "interfaceEncoder" -> interfaceEncoder(v, fl, mk)
      [] encoder = "timeEncoder" -> timeEncoder(v, fl)
      [] encoder = "structEncoder" -> structEncoder(v, fl, mk)
      [] encoder = "mapEncoder" -> mapEncoder(v, fl, mk)
      [] encoder = "sliceEncoder" -> sliceEncoder(v, fl, mk)
      [] encoder = "arrayEncoder" -> arrayEncoder(v, fl, mk)
      [] encoder = "ptrEncoder" -> ptrEncoder(v, fl, mk)
      [] encoder = "marshalerBufEncoder" -> marshalerBufEncoder(v, fl)
      [] encoder = "addrMarshalerBufEncoder" -> addrMarshalerBufEncoder(v, fl)
      [] OTHER -> unsupportedTypeEncoder(v)

\* encodeState.reflectValue: valueEncoder(v)(e, v)
reflectValue(v, fl, mk) ==
    IF v = NilV THEN invalidValueEncoder
    ELSE encodeWith(valueEncoder(v, fl), v, fl, mk)

\* Marshal(v) when the keys of the maps come in the order mk: [buf, err], buf
\* nil when err is set, err Panic when e.marshal does not recover the panic;
\* reflect.ValueOf(v) is not addressable
marshal(r) == IF r.err # NoErr THEN [buf |-> <<>>, err |-> r.err] ELSE r
Marshal(v, mk) == marshal(reflectValue(v, NoFlag, mk))

\* the keys of the maps in v, each [kt, x], whose place among the keys of their
\* map the sort does not decide: keys of one string, and keys that fail
UnorderedKeys(kt, sv) ==
    {[kt |-> kt, x |-> x] :
        x \in {x \in DOMAIN sv :
                  \E y \in DOMAIN sv :
                     /\ y # x
                     /\ \/ sv[x].err = NoErr /\ sv[y].err = NoErr /\ sv[y].s = sv[x].s
                        \/ sv[x].err # NoErr /\ sv[y].err # NoErr}}
RECURSIVE Unordered(_)
Unordered(v) ==
    UNION {Unordered(x) :
             x \in CASE v.t.k \in {"ptr", "iface"} -> IF v.nil THEN {} ELSE {v.v}
                    [] v.t.k \in {"slice", "array"} -> {v.e[i] : i \in DOMAIN v.e}
                    [] v.t.k = "struct" -> {v.f[i] : i \in DOMAIN v.f}
                    [] v.t.k = "map" -> {v.m[x] : x \in DOMAIN v.m}
                    [] OTHER -> {}}
      \cup (IF v.t.k = "map" /\ newMapEncoder(v.t) = "mapEncoder"
            THEN UnorderedKeys(v.t.key, resolveKeys(v.t.key, DOMAIN v.m, NoFlag))
            ELSE {})

\* the orders in which a run can give the keys of the maps in v
Orders(S) == {mk \in [1..Cardinality(S) -> S] : \A i, j \in DOMAIN mk : mk[i] = mk[j] => i = j}
MapKeysOrders(v) == Orders(Unordered(v))



(***************************************************************************)
(* Decoder (decode.go).                                                    *)
(***************************************************************************)
errPhase == Err("errPhase")

\* &UnmarshalTypeError{Value, Offset}; Struct and Field are set by addErrorContext.
\* Value is value + " " + lit where the code appends the literal to it, and
\* value + lit when joined.
UnmarshalTypeError(value, off) ==
    [kind |-> "UnmarshalTypeError", value |-> value, lit |-> <<>>, joined |-> FALSE,
     off |-> off, struct |-> "", field |-> <<>>]
UnmarshalTypeErrorOf(value, s, off) == [UnmarshalTypeError(value, off) EXCEPT !.lit = s]
UnmarshalTypeErrorJoined(value, s, off) ==
    [UnmarshalTypeError(value, off) EXCEPT !.lit = s, !.joined = TRUE]

NoContext == [struct |-> "", field |-> <<>>]

\* decodeState after init(data), with the scanner checkValid left behind
init(data, s) ==
    [data |-> data, off |-> 0, opcode |-> scanContinue, scan |-> s,
     errorContext |-> NoContext, savedError |-> NoErr, disallowUnknownFields |-> FALSE,
     hooks |-> <<>>]

readIndex(d) == d.off - 1

addErrorContext(d, err) ==
    IF d.errorContext # NoContext /\ err.kind = "UnmarshalTypeError"
    THEN [err EXCEPT !.struct = d.errorContext.struct, !.field = d.errorContext.field]
    ELSE err

saveError(d, err) ==
    IF d.savedError = NoErr THEN [d EXCEPT !.savedError = addErrorContext(d, err)] ELSE d

\* skip: [d, panic]; panic when the loop indexes past the end of data
RECURSIVE skipLoop(_, _, _, _)
skipLoop(d, s, i, depth) ==
    IF i >= Len(d.data) THEN [d |-> [d EXCEPT !.scan = s, !.off = i], panic |-> TRUE]
    ELSE LET stepped(r) ==
                 IF Len(r.s.parseState) < depth
                 THEN [d |-> [d EXCEPT !.scan = r.s, !.off = i + 1, !.opcode = r.op],
                       panic |-> FALSE]
                 ELSE skipLoop(d, r.s, i + 1, depth)
         IN stepped(step(s, d.data[i + 1]))

skip(d) == skipLoop(d, d.scan, d.off, Len(d.scan.parseState))

scanNext(d) ==
    LET read(r, off) == [d EXCEPT !.scan = r.s, !.opcode = r.op, !.off = off]
    IN IF d.off < Len(d.data)
       THEN read(step(d.scan, d.data[d.off + 1]), d.off + 1)
       ELSE read(eof(d.scan), Len(d.data) + 1)

RECURSIVE scanWhileLoop(_, _, _, _)
scanWhileLoop(d, s, i, op) ==
    LET read(r, off) == [d EXCEPT !.scan = r.s, !.opcode = r.op, !.off = off]
        stepped(r) == IF r.op # op THEN read(r, i + 1)
                      ELSE scanWhileLoop(d, r.s, i + 1, op)
    IN IF i < Len(d.data)
       THEN stepped(step(s, d.data[i + 1]))
       ELSE read(eof(s), Len(d.data) + 1)

scanWhile(d, op) == scanWhileLoop(d, d.scan, d.off, op)

\* the value of the hexadecimal digit c
HexVal(c) ==
    IF IsDigit(c) THEN c - 48
    ELSE IF 97 <= c /\ c <= 102 THEN c - 97 + 10
    ELSE c - 65 + 10

\* getu4(s): the rune of the \uXXXX that s begins with, or -1
getu4(s) ==
    IF Len(s) < 6 \/ s[1] # Ord["\\"] \/ s[2] # Ord["u"] THEN -1
    ELSE IF \E i \in 3..6 : ~IsHex(s[i]) THEN -1
    ELSE HexVal(s[3]) * 4096 + HexVal(s[4]) * 256 + HexVal(s[5]) * 16 + HexVal(s[6])

\* utf16.DecodeRune(r1, r2)
DecodeRune16(r1, r2) ==
    IF 55296 <= r1 /\ r1 < 56320 /\ 56320 <= r2 /\ r2 < 57344
    THEN (r1 - 55296) * 1024 + (r2 - 56320) + 65536
    ELSE RuneError

\* the second loop of unquoteBytes at 0-based r, with the bytes b written so far
RECURSIVE unquoteLoop(_, _, _)
unquoteLoop(s, r, b) ==
    IF r >= Len(s) THEN [t |-> b, ok |-> TRUE]
    ELSE LET c == s[r + 1]
             fail == [t |-> <<>>, ok |-> FALSE]
         IN IF c = Ord["\\"]
            THEN IF r + 1 >= Len(s) THEN fail
                 ELSE LET e == s[r + 2]
                      IN IF e \in {Ord["\""], Ord["\\"], Ord["/"], Ord["'"]}
                         THEN unquoteLoop(s, r + 2, b \o <<e>>)
                         ELSE IF e = Ord["b"] THEN unquoteLoop(s, r + 2, b \o <<8>>)
                         ELSE IF e = Ord["f"] THEN unquoteLoop(s, r + 2, b \o <<12>>)
                         ELSE IF e = Ord["n"] THEN unquoteLoop(s, r + 2, b \o <<10>>)
                         ELSE IF e = Ord["r"] THEN unquoteLoop(s, r + 2, b \o <<13>>)
                         ELSE IF e = Ord["t"] THEN unquoteLoop(s, r + 2, b \o <<9>>)
                         ELSE IF e = Ord["u"]
                         THEN LET rr == getu4(Slice(s, r, Len(s)))
                              IN IF rr < 0 THEN fail
                                 ELSE IF IsSurrogate(rr)
                                 THEN LET rr1 == getu4(Slice(s, r + 6, Len(s)))
                                          dec16 == DecodeRune16(rr, rr1)
                                      IN IF dec16 # RuneError
                                         THEN unquoteLoop(s, r + 12, b \o EncodeRune(dec16))
                                         ELSE unquoteLoop(s, r + 6, b \o EncodeRune(RuneError))
                                 ELSE unquoteLoop(s, r + 6, b \o EncodeRune(rr))
                         ELSE fail
            ELSE IF c = Ord["'"] THEN fail
            ELSE IF c < RuneSelf THEN unquoteLoop(s, r + 1, b \o <<c>>)
            ELSE LET d == DecodeRune(Slice(s, r, Len(s)))
                 IN unquoteLoop(s, r + d.size, b \o EncodeRune(d.c))

\* the first loop of unquoteBytes: the index of the first byte that needs work
RECURSIVE unquoteScan(_, _)
unquoteScan(s, r) ==
    IF r >= Len(s) THEN r
    ELSE LET c == s[r + 1]
         IN IF c = Ord["\\"] \/ c = Ord["'"] THEN r
            ELSE IF c < RuneSelf THEN unquoteScan(s, r + 1)
            ELSE LET d == DecodeRune(Slice(s, r, Len(s)))
                 IN IF d.c = RuneError /\ d.size = 1 THEN r ELSE unquoteScan(s, r + d.size)

\* unquoteBytes(s): [t, ok]
unquoteBytes(s0) ==
    IF Len(s0) < 2 \/ s0[1] # Ord["'"] \/ s0[Len(s0)] # Ord["'"]
    THEN [t |-> <<>>, ok |-> FALSE]
    ELSE LET s == Slice(s0, 1, Len(s0) - 1)
             r == unquoteScan(s, 0)
         IN IF r = Len(s) THEN [t |-> s, ok |-> TRUE]
            ELSE unquoteLoop(s, r, Slice(s, 0, r))

unquote(s) == unquoteBytes(s)

\* the lower case of the ASCII letter c
Lower(c) == IF 65 <= c /\ c <= 90 THEN c + 32 ELSE c

\* bytes.IndexByte(b, c)
IndexByte(b, c) ==
    IF \E i \in DOMAIN b : b[i] = c
    THEN (CHOOSE i \in DOMAIN b : b[i] = c /\ \A j \in 1..(i - 1) : b[j] # c) - 1
    ELSE -1

\* number of digits of s from 0-based i on
RECURSIVE TakeDigits(_, _)
TakeDigits(s, i) == IF i < Len(s) /\ IsDigit(s[i + 1]) THEN 1 + TakeDigits(s, i + 1) ELSE 0

\* the longest decimal literal whose number the model holds
MaxDigits == 9

RECURSIVE ParseDigits(_, _)
ParseDigits(s, acc) ==
    IF s = <<>> THEN acc ELSE ParseDigits(Tail(s), acc * 10 + (Head(s) - 48))

\* s without the zeros it begins with
RECURSIVE TrimLeft0(_)
TrimLeft0(s) == IF s # <<>> /\ Head(s) = 48 THEN TrimLeft0(Tail(s)) ELSE s

\* the digits a stand for a greater number than the digits b, neither
\* beginning with a zero
GreaterDigits(a, b) == Len(a) > Len(b) \/ (Len(a) = Len(b) /\ LessBytes(b, a))

\* 1<<63 - 1, 1<<63 and 1<<64 - 1
MaxInt64 == B(<<"9", "2", "2", "3", "3", "7", "2", "0", "3", "6", "8", "5", "4", "7", "7", "5",
                "8", "0", "7">>)
MinInt64 == B(<<"9", "2", "2", "3", "3", "7", "2", "0", "3", "6", "8", "5", "4", "7", "7", "5",
                "8", "0", "8">>)
MaxUint64 == B(<<"1", "8", "4", "4", "6", "7", "4", "4", "0", "7", "3", "7", "0", "9", "5", "5",
                 "1", "6", "1", "5">>)

\* the number of the digits sig, which the model holds up to MaxDigits digits
NumberOf(sig) == IF Len(sig) <= MaxDigits THEN ParseDigits(sig, 0) ELSE OutsideModel(sig)

\* strconv.ParseInt(s, 10, 64): [ok, n]; not ok for a syntax error and for a
\* number out of the range of int64
ParseInt(s) ==
    LET neg == s # <<>> /\ s[1] = Ord["-"]
        digits == IF s # <<>> /\ s[1] \in {Ord["-"], Ord["+"]} THEN Tail(s) ELSE s
        sig == TrimLeft0(digits)
    IN IF digits = <<>> \/ (\E i \in 1..Len(digits) : ~IsDigit(digits[i]))
          \/ GreaterDigits(sig, IF neg THEN MinInt64 ELSE MaxInt64)
       THEN [ok |-> FALSE, n |-> 0]
       ELSE [ok |-> TRUE, n |-> IF neg THEN 0 - NumberOf(sig) ELSE NumberOf(sig)]

\* strconv.ParseUint(s, 10, 64): [ok, n]; no sign is accepted
ParseUint(s) ==
    IF s = <<>> \/ (\E i \in 1..Len(s) : ~IsDigit(s[i])) \/ GreaterDigits(TrimLeft0(s), MaxUint64)
    THEN [ok |-> FALSE, n |-> 0]
    ELSE [ok |-> TRUE, n |-> NumberOf(TrimLeft0(s))]

\* reflect.Value.OverflowUint for an unsigned type of the given width
OverflowUint(t, n) ==
    IF t.bits = 8 THEN n > 255
    ELSE IF t.bits = 16 THEN n > 65535
    ELSE FALSE

\* reflect.Value.OverflowInt for an integer type of the given width
OverflowInt(t, n) ==
    IF t.bits = 8 THEN n < -128 \/ n > 127
    ELSE IF t.bits = 16 THEN n < -32768 \/ n > 32767
    ELSE FALSE

(***************************************************************************)
(* strconv.ParseFloat.  A finite float is the decimal 0.d * 10^dp of its   *)
(* shortest digits d.  The model converts the literals whose float it can  *)
(* name: those of up to 15 significant digits (6 for a float32) from the   *)
(* normal numbers on, the integers below 2^54 (2^25), of which those from  *)
(* 2^53 (2^24) on are rounded to the even neighbour, and the numbers that  *)
(* are rounded to zero or are out of range.                                *)
(***************************************************************************)
\* s without the zeros it ends with
RECURSIVE TrimRight0(_)
TrimRight0(s) ==
    IF s # <<>> /\ s[Len(s)] = Ord["0"] THEN TrimRight0(SubSeq(s, 1, Len(s) - 1)) ELSE s

\* the digits d plus one in the last place
RECURSIVE IncDigits(_)
IncDigits(d) ==
    IF d = <<>> THEN <<1>>
    ELSE IF d[Len(d)] < 9 THEN [d EXCEPT ![Len(d)] = @ + 1]
    ELSE Append(IncDigits(SubSeq(d, 1, Len(d) - 1)), 0)

\* the digits d without the zeros they end with
RECURSIVE TrimDigits(_)
TrimDigits(d) == IF d # <<>> /\ d[Len(d)] = 0 THEN TrimDigits(SubSeq(d, 1, Len(d) - 1)) ELSE d

\* 0.a < 0.b for digits without zeros at the end
RECURSIVE FracLess(_, _)
FracLess(a, b) ==
    IF b = <<>> THEN FALSE
    ELSE IF a = <<>> THEN TRUE
    ELSE IF Head(a) # Head(b) THEN Head(a) < Head(b)
    ELSE FracLess(Tail(a), Tail(b))

\* the first digits of 2^1024 - 2^970 and of 2^128 - 2^103, from which on a
\* float64 and a float32 are out of range, and the place of their point
OverflowDigits(bits) ==
    IF bits = 64 THEN <<1, 7, 9, 7, 6, 9, 3, 1, 3, 4, 8, 6, 2, 3, 1, 5, 8, 0, 7, 9>>
    ELSE <<3, 4, 0, 2, 8, 2, 3, 5, 6, 7, 7, 9, 7, 3, 3, 6, 6, 1, 6, 3>>
OverflowPoint(bits) == IF bits = 64 THEN 309 ELSE 39
\* the place of the point from which down a number is rounded to zero, and the
\* place from which up the numbers are normal
UnderflowPoint(bits) == IF bits = 64 THEN -324 ELSE -46
NormalPoint(bits) == IF bits = 64 THEN -306 ELSE -36
\* the significant digits every float of the width tells apart
ExactDigits(bits) == IF bits = 64 THEN 15 ELSE 6
\* 2^53 and 2^24: the integers from there on are even, up to 2^54 and 2^25
EvenFrom(bits) ==
    IF bits = 64 THEN <<9, 0, 0, 7, 1, 9, 9, 2, 5, 4, 7, 4, 0, 9, 9, 2>>
    ELSE <<1, 6, 7, 7, 7, 2, 1, 6>>
EvenBelow(bits) ==
    IF bits = 64 THEN <<1, 8, 0, 1, 4, 3, 9, 8, 5, 0, 9, 4, 8, 1, 9, 8, 4>>
    ELSE <<3, 3, 5, 5, 4, 4, 3, 2>>

\* 0.d * 10^dp < 0.e * 10^ep for digits that begin with no zero
NumLess(d, dp, e, ep) == dp < ep \/ (dp = ep /\ FracLess(d, e))

\* the float of the given width nearest to 0.d * 10^dp: [ok, f], not ok with an
\* infinity when the number is out of range
RoundFloat(bits, neg, d, dp) ==
    LET nd == Len(d)
        from == EvenFrom(bits)
        below == EvenBelow(bits)
        integer == dp >= nd
        small == NumLess(d, dp, from, Len(from))
        odd == dp = nd /\ d[nd] % 2 = 1 /\ ~small
        \* the neighbour of the odd integer that is a multiple of 4
        low == (d[nd - 1] * 10 + d[nd] - 1) % 4 = 0
        even == IF low THEN [d EXCEPT ![nd] = @ - 1] ELSE IncDigits(d)
        d1 == IF odd THEN TrimDigits(even) ELSE d
        dp1 == IF odd /\ Len(even) > nd THEN dp + 1 ELSE dp
    IN IF d = <<>> \/ dp <= UnderflowPoint(bits)
       THEN [ok |-> TRUE, f |-> Float(bits, neg, <<>>, 0)]
       ELSE IF dp > OverflowPoint(bits)
               \/ (dp = OverflowPoint(bits) /\ nd <= 17 /\ ~FracLess(d, OverflowDigits(bits)))
       THEN [ok |-> FALSE, f |-> Inf(bits, neg)]
       ELSE IF \/ nd <= ExactDigits(bits) /\ dp >= NormalPoint(bits)
               \/ integer /\ NumLess(d, dp, below, Len(below))
       THEN [ok |-> TRUE, f |-> Float(bits, neg, d1, dp1)]
       ELSE OutsideModel(d)

\* the exponent of a literal; one of more than five digits is as good as
\* 100000
Exponent(neg, digits) ==
    LET sig == TrimLeft0(digits)
        n == IF Len(sig) > 5 THEN 100000 ELSE ParseDigits(sig, 0)
    IN IF neg THEN 0 - n ELSE n

\* strconv.ParseFloat(s, bits): [ok, f], not ok for a syntax error and for a
\* number out of range.  The model converts the decimal literals
\* [+-]digits[.digits][e[+-]digits] and the infinities, not the hexadecimal
\* literals and not the literals with underscores.
\* readFloat, the mantissa: ni digits, a point (dot) and nf digits at the
\* beginning of body; all are the digits, end is where the mantissa ends
floatDigits(body, ni, dot, nf) ==
    [ni |-> ni, n |-> ni + nf, end |-> ni + (IF dot THEN 1 + nf ELSE 0),
     all |-> Slice(body, 0, ni) \o (IF dot THEN Slice(body, ni + 1, ni + 1 + nf) ELSE <<>>)]
floatFraction(body, ni, dot) ==
    floatDigits(body, ni, dot, IF dot THEN TakeDigits(body, ni + 1) ELSE 0)
floatMantissa(body, ni) == floatFraction(body, ni, ni < Len(body) /\ body[ni + 1] = Ord["."])

\* readFloat, the exponent behind the mantissa that ends at mend: ok unless
\* the e has no digits, end where the exponent ends
floatExpDigits(body, mend, esign, estart, ne) ==
    [ok |-> ne > 0, end |-> estart + ne,
     exp |-> Exponent(esign /\ body[mend + 2] = Ord["-"], Slice(body, estart, estart + ne))]
floatExpAt(body, mend, esign, estart) ==
    floatExpDigits(body, mend, esign, estart, TakeDigits(body, estart))
floatExpSigned(body, mend, esign) ==
    floatExpAt(body, mend, esign, mend + 1 + (IF esign THEN 1 ELSE 0))
floatExponent(body, mend) ==
    IF mend < Len(body) /\ body[mend + 1] \in {Ord["e"], Ord["E"]}
    THEN floatExpSigned(body, mend,
             mend + 1 < Len(body) /\ body[mend + 2] \in {Ord["-"], Ord["+"]})
    ELSE [ok |-> TRUE, end |-> mend, exp |-> 0]

\* the float of the mantissa m, of the digits sig without the zeros in front,
\* and of the exponent e
floatValue(bits, neg, m, e, sig) ==
    RoundFloat(bits, neg, [i \in DOMAIN TrimRight0(sig) |-> sig[i] - 48],
               m.ni - (Len(m.all) - Len(sig)) + e.exp)
floatParsed(bits, neg, body, m, e) ==
    IF m.n = 0 \/ ~e.ok \/ e.end # Len(body)
    THEN [ok |-> FALSE, f |-> Float(bits, FALSE, <<>>, 0)]
    ELSE floatValue(bits, neg, m, e, TrimLeft0(m.all))
floatOf(bits, neg, body, m) == floatParsed(bits, neg, body, m, floatExponent(body, m.end))
\* the special values, lower the body in lower case
floatSpecial(s, bits, neg, body, lower) ==
    IF lower \in {B(<<"i", "n", "f">>), B(<<"i", "n", "f", "i", "n", "i", "t", "y">>)}
    THEN [ok |-> TRUE, f |-> Inf(bits, neg)]
    ELSE IF lower = B(<<"n", "a", "n">>) /\ body = s THEN [ok |-> TRUE, f |-> NaN(bits)]
    ELSE IF (\E i \in DOMAIN body : body[i] = Ord["_"])
            \/ (Len(lower) >= 2 /\ lower[1] = 48 /\ lower[2] = Ord["x"])
    THEN OutsideModel(s)
    ELSE floatOf(bits, neg, body, floatMantissa(body, TakeDigits(body, 0)))
floatSigned(s, bits, body) ==
    floatSpecial(s, bits, s # <<>> /\ s[1] = Ord["-"], body, [i \in DOMAIN body |-> Lower(body[i])])
ParseFloat(s, bits) ==
    floatSigned(s, bits, IF s # <<>> /\ s[1] \in {Ord["-"], Ord["+"]} THEN Tail(s) ELSE s)

\* FloatV(lit): the float64 strconv.ParseFloat gives for the digits lit
FloatV(lit) == ParseFloat(lit, 64).f

\* the days of month m of the year y
DaysIn(y, m) ==
    IF m = 2 THEN (IF y % 4 = 0 /\ (y % 100 # 0 \/ y % 400 = 0) THEN 29 ELSE 28)
    ELSE IF m \in {4, 6, 9, 11} THEN 30
    ELSE 31

\* the date that is day d of the month m (1..12) of the year y, d any number
RECURSIVE NormalDay(_, _, _)
NormalDay(y, m, d) ==
    IF d < 1
    THEN NormalDay(IF m = 1 THEN y - 1 ELSE y, IF m = 1 THEN 12 ELSE m - 1,
                d + DaysIn(IF m = 1 THEN y - 1 ELSE y, IF m = 1 THEN 12 ELSE m - 1))
    ELSE IF d > DaysIn(y, m)
    THEN NormalDay(IF m = 12 THEN y + 1 ELSE y, IF m = 12 THEN 1 ELSE m + 1, d - DaysIn(y, m))
    ELSE <<y, m, d>>

\* time.Date(year, month, day, hour, min, sec, 0, time.UTC): the values may be
\* outside their usual ranges and are normalised, October 32 is November 1
Date(year, month, day, hour, min, sec) ==
    LET y1 == year + ((month - 1) \div 12)
        m1 == ((month - 1) % 12) + 1
        mi1 == min + (sec \div 60)
        h1 == hour + (mi1 \div 60)
        ymd == NormalDay(y1, m1, day + (h1 \div 24))
    IN TimeV(ymd[1], ymd[2], ymd[3], h1 % 24, mi1 % 60, sec % 60)

\* (*time.Time).UnmarshalText(s): [t, err].  The model converts the RFC 3339
\* form of a UTC time of whole seconds, YYYY-MM-DDTHH:MM:SSZ, and knows a text
\* that does not begin with a year and "-" for an error
TimeUnmarshalText(s) ==
    LET num(a, b) == ParseDigits(Slice(s, a, b), 0)
        digitsAt == {0, 1, 2, 3, 5, 6, 8, 9, 11, 12, 14, 15, 17, 18}
        bad == [t |-> Zero(TimeT), err |-> Err("parsing time")]
    IN IF Len(s) < 5 \/ (\E i \in 1..4 : ~IsDigit(s[i])) \/ s[5] # Ord["-"] THEN bad
       ELSE IF Len(s) # 20 \/ (\E i \in digitsAt : ~IsDigit(s[i + 1]))
               \/ <<s[5], s[8], s[11], s[14], s[17], s[20]>> # B(<<"-", "-", "T", ":", ":", "Z">>)
       THEN OutsideModel(s)
       ELSE IF num(5, 7) \notin 1..12 \/ num(8, 10) \notin 1..DaysIn(num(0, 4), num(5, 7))
               \/ num(11, 13) > 23 \/ num(14, 16) > 59 \/ num(17, 19) > 59
       THEN bad
       ELSE [t |-> TimeV(num(0, 4), num(5, 7), num(8, 10), num(11, 13), num(14, 16),
                         num(17, 19)),
             err |-> NoErr]

\* u.UnmarshalText(s) for a key of type kt: [key, err], key the key value
\* (*unmarshalerText).UnmarshalText splits s at the first ":"
timeKey(time) == [key |-> KeyOf(time.t), err |-> time.err]
textKey(s, pos) ==
    IF pos = -1 THEN [key |-> KeyOf(Zero(TextT)), err |-> Err("missing separator")]
    ELSE [key |-> <<Slice(s, 0, pos), Slice(s, pos + 1, Len(s))>>, err |-> NoErr]
UnmarshalText(kt, s) ==
    IF kt = TimeT THEN timeKey(TimeUnmarshalText(s)) ELSE textKey(s, IndexByte(s, Ord[":"]))


\* result of value, array, object, literalStore: the decodeState, the value v
\* as the call left it, and the error returned
Res(d, v, err) == [d |-> d, v |-> v, err |-> err]

\* v.Elem() taken n times, and v with that place replaced by x
RECURSIVE At(_, _)
At(v, n) == IF n = 0 THEN v ELSE At(v.v, n - 1)
RECURSIVE SetAt(_, _, _)
SetAt(v, n, x) == IF n = 0 THEN x ELSE [v EXCEPT !.v = SetAt(v.v, n - 1, x)]

\* *t implements Unmarshaler
Implements(t) == (t.k = "struct" /\ t.um) \/ t \in {sdoNameT, ErrorT, RefT}

\* the for loop of indirect.  root is the value indirect was called with and
\* fl0 its flags; the cursor c is v of the code: root's address (addr), or root
\* after n Elem() steps, with its flags fl.
RECURSIVE indirectLoop(_, _, _, _)
indirectLoop(root, c, decodingNull, fl0) ==
    LET cur == IF c.addr THEN PtrV(root) ELSE At(root, c.n)
        at(u, r, hn, panic) ==
            [u |-> u, root |-> r, n |-> c.n, hn |-> hn, fl |-> c.fl, panic |-> panic]
        root1 == IF cur.nil THEN SetAt(root, c.n, PtrV(Zero(cur.t.elem))) ELSE root
    IN IF /\ cur.t.k = "iface" /\ ~cur.nil
          /\ cur.v.t.k = "ptr" /\ ~cur.v.nil
          /\ (~decodingNull \/ cur.v.v.t.k = "ptr")
       THEN indirectLoop(root, [n |-> c.n + 1, addr |-> FALSE, fl |-> IfaceElemFlag(c.fl)],
                         decodingNull, fl0)
       ELSE IF cur.t.k # "ptr" THEN at(FALSE, root, 0, FALSE)
       ELSE IF (cur.nil \/ cur.v.t.k # "ptr") /\ decodingNull /\ CanSet(c.fl)
       THEN at(FALSE, root, 0, FALSE)
       ELSE IF cur.nil /\ ~CanSet(c.fl) THEN at(FALSE, root, 0, TRUE)
       ELSE IF Implements(cur.t.elem) /\ CanInterface(c.fl)
       THEN at(TRUE, root1, IF c.addr THEN 0 ELSE c.n + 1, FALSE)
       ELSE IF c.addr
       THEN indirectLoop(root1, [n |-> 0, addr |-> FALSE, fl |-> fl0], decodingNull, fl0)
       ELSE indirectLoop(root1, [n |-> c.n + 1, addr |-> FALSE, fl |-> ElemFlag(c.fl)],
                         decodingNull, fl0)

\* indirect that never takes the decodingNull exits
indirectNotNull(v, decodingNull, fl) ==
    LET haveAddr == v.t.k # "ptr" /\ Named(v.t) /\ CanAddr(fl)
    IN indirectLoop(v, [n |-> 0, addr |-> haveAddr,
                        fl |-> IF haveAddr THEN AddrFlag(fl) ELSE fl], FALSE, fl)

\* indirect(v, decodingNull) for v with the flags fl: [u, root, n, hn, fl, panic].
\* u: an Unmarshaler was found, it is root after hn Elem() steps; otherwise the
\* value returned is root after n Elem() steps and has the flags fl.  root is v
\* with the pointers indirect allocated.  panic: v.Set of a nil pointer that is
\* not settable.
indirect(v, decodingNull, fl) ==
    LET haveAddr == v.t.k # "ptr" /\ Named(v.t) /\ CanAddr(fl)
    IN indirectLoop(v, [n |-> 0, addr |-> haveAddr,
                        fl |-> IF haveAddr THEN AddrFlag(fl) ELSE fl], decodingNull, fl)

\* fmt.Errorf("oscript: unknown SDOName \"%s\"", got)
UnknownSDOName(got) == [kind |-> "UnknownSDOName", msg |-> "", c |-> 0, off |-> 0, got |-> got]

\* sdoName.UnmarshalOscript(data): the error returned; slicing data[1:len(data)-1]
\* panics when data has one byte
sdoNameUnmarshalOscript(sn, data) ==
    IF sn = data THEN NoErr
    ELSE IF Len(data) = 0 THEN Panic
    ELSE IF Len(data) >= 2 \/ data[1] # Ord["'"] \/ data[Len(data)] # Ord["'"]
    THEN IF Len(data) < 2 THEN Panic
         ELSE UnknownSDOName(Slice(data, 1, Len(data) - 1))
    ELSE UnknownSDOName(data)

\* strconv.Atoi(s): [ok, n]
Atoi(s) == ParseInt(s)

\* errors.New("oscript: error type, " + err.Error())
ErrorTypeError == Err("oscript: error type")

\* (*Error).UnmarshalOscript(data): [e, err], e the Error after the call.
\* data[1:] panics when data is empty
ErrorUnmarshalOscript(e, data) ==
    IF data = <<Ord["?"]>> THEN [e |-> e, err |-> NoErr]
    ELSE IF Len(data) = 0 THEN [e |-> e, err |-> Panic]
    ELSE IF ~Atoi(Tail(data)).ok THEN [e |-> e, err |-> ErrorTypeError]
    ELSE [e |-> ErrorV(Atoi(Tail(data)).n), err |-> NoErr]

\* u.UnmarshalOscript(b), u the Unmarshaler indirect found.  For the hook type
\* unmarshaler: *u = unmarshaler{true}, return nil; for Ref: *r = 12, return
\* nil.  d.hooks records the b of every call.
UnmarshalOscript(d, ind, b) ==
    IF At(ind.root, ind.hn).t = sdoNameT
    THEN Res([d EXCEPT !.hooks = Append(@, b)], ind.root,
             sdoNameUnmarshalOscript(At(ind.root, ind.hn).s, b))
    ELSE IF At(ind.root, ind.hn).t = ErrorT
    THEN LET r == ErrorUnmarshalOscript(At(ind.root, ind.hn), b)
         IN Res([d EXCEPT !.hooks = Append(@, b)], SetAt(ind.root, ind.hn, r.e), r.err)
    ELSE IF At(ind.root, ind.hn).t = RefT
    THEN Res([d EXCEPT !.hooks = Append(@, b)], SetAt(ind.root, ind.hn, RefV(12)), NoErr)
    ELSE Res([d EXCEPT !.hooks = Append(@, b)],
             SetAt(ind.root, ind.hn, [At(ind.root, ind.hn) EXCEPT !.f[1] = BoolV(TRUE)]),
             NoErr)

\* regTime.FindStringSubmatch(s) for s beginning with D: the six groups, or none.
\* group g starts at 0-based i; seps are the bytes that follow groups 1..5
RECURSIVE regTimeFrom(_, _, _, _)
regTimeFrom(s, i, g, acc) ==
    LET k == TakeDigits(s, i)
        seps == B(<<"/", "/", ":", ":", ":">>)
    IN IF g = 6
       THEN IF k >= 1
            THEN [ok |-> TRUE, d |-> Append(acc, Slice(s, i, i + (IF k > 2 THEN 2 ELSE k)))]
            ELSE [ok |-> FALSE, d |-> <<>>]
       ELSE IF k >= 1 /\ (g = 1 \/ k <= 2) /\ i + k < Len(s) /\ s[i + k + 1] = seps[g]
       THEN regTimeFrom(s, i + k + 1, g + 1, Append(acc, Slice(s, i, i + k)))
       ELSE [ok |-> FALSE, d |-> <<>>]

\* convertTime(s): [ok, t]
convertTime(s) ==
    LET matched(m) ==
            LET n(i) == ParseInt(m.d[i])
            IN IF ~m.ok \/ (\E i \in 1..6 : ~n(i).ok) THEN [ok |-> FALSE, t |-> Zero(TimeT)]
               ELSE [ok |-> TRUE,
                     t |-> Date(n(1).n, n(2).n, n(3).n, n(4).n, n(5).n, n(6).n)]
    IN matched(IF Len(s) >= 2 /\ s[1] = Ord["D"] /\ s[2] = Ord["/"]
               THEN regTimeFrom(s, 2, 1, <<>>)
               ELSE [ok |-> FALSE, d |-> <<>>])

convertNumber(d, s) ==
    LET parsed(r) ==
            IF r.ok THEN [ok |-> TRUE, v |-> IntV(64, r.n), err |-> NoErr]
            ELSE [ok |-> FALSE, v |-> NilV, err |-> UnmarshalTypeErrorOf("number", s, d.off)]
    IN parsed(ParseInt(s))

convertFloat(d, s) ==
    LET parsed(r) ==
            IF r.ok THEN [ok |-> TRUE, v |-> r.f, err |-> NoErr]
            ELSE [ok |-> FALSE, v |-> NilV, err |-> UnmarshalTypeErrorOf("number", s, d.off)]
    IN parsed(ParseFloat(s, 64))

\* literalStore once indirect has returned ind; a Set of a value that is not
\* settable panics
literalStoreAt(d, item, ind) ==
    LET c == item[1]
        pv == At(ind.root, ind.n)
        kind == Kind(pv.t)
        store(x) == IF CanSet(ind.fl) THEN Res(d, SetAt(ind.root, ind.n, x), NoErr)
                    ELSE Res(d, ind.root, Panic)
        keep == Res(d, ind.root, NoErr)
        mismatch(value) ==
            Res(saveError(d, UnmarshalTypeError(value, readIndex(d))), ind.root, NoErr)
        time(t) ==
            IF ~t.ok THEN Res(saveError(d, Err("can not parse")), ind.root, NoErr)
            ELSE store(IF kind = "iface" THEN IfaceV(t.t) ELSE t.t)
        bytes(b) ==
            IF ~b.ok THEN Res(saveError(d, Err("CorruptInputError")), ind.root, NoErr)
            ELSE store(SliceV(pv.t.elem, [i \in DOMAIN b.b |-> [t |-> pv.t.elem, n |-> b.b[i]]]))
        quoted(s) ==
            IF ~s.ok THEN Res(d, ind.root, errPhase)
            ELSE IF kind = "slice"
            THEN IF Kind(pv.t.elem) = "uint" /\ pv.t.elem.bits = 8 THEN bytes(DecodeBase64(s.t))
                 ELSE mismatch("string")
            ELSE IF kind = "string" THEN store([pv EXCEPT !.s = s.t])
            ELSE IF kind = "iface" THEN store(IfaceV(StringV(s.t)))
            ELSE mismatch("string")
        number(cn) ==
            IF cn.ok THEN store(IfaceV(cn.v))
            ELSE Res(saveError(d, cn.err), ind.root, NoErr)
        float(s, r) ==
            IF kind = "iface" THEN number(convertFloat(d, s))
            ELSE IF kind = "float"
            THEN IF ~r.ok
                 THEN Res(saveError(d, UnmarshalTypeErrorJoined("float", s, readIndex(d))),
                          ind.root, NoErr)
                 ELSE store(r.f)
            ELSE mismatch("float")
        integer(it, n) ==
            IF it[1] # Ord["-"] /\ ~IsDigit(it[1]) THEN Res(d, ind.root, errPhase)
            ELSE IF kind = "iface" THEN number(convertNumber(d, it))
            ELSE IF kind = "int"
            THEN IF ~n.ok \/ OverflowInt(pv.t, n.n)
                 THEN Res(saveError(d, UnmarshalTypeErrorOf("int", it, readIndex(d))),
                          ind.root, NoErr)
                 ELSE store([pv EXCEPT !.n = n.n])
            ELSE IF kind = "uint"
            THEN IF ~ParseUint(it).ok \/ OverflowUint(pv.t, ParseUint(it).n)
                 THEN Res(saveError(d, UnmarshalTypeErrorOf("int", it, readIndex(d))),
                          ind.root, NoErr)
                 ELSE store([pv EXCEPT !.n = ParseUint(it).n])
            ELSE mismatch("int")
        digits(it) == integer(it, ParseInt(it))
    IN IF ind.panic THEN Res(d, ind.root, Panic)
       ELSE IF ind.u THEN UnmarshalOscript(d, ind, item)
       ELSE IF c = Ord["?"]
       THEN IF kind \in {"iface", "ptr", "map", "slice"} THEN store(Zero(pv.t)) ELSE keep
       ELSE IF c = Ord["D"]
       THEN IF pv.t = TimeT \/ kind = "iface" THEN time(convertTime(item))
            ELSE mismatch("time")
       ELSE IF c \in {Ord["t"], Ord["f"]}
       THEN IF kind = "bool" THEN store([pv EXCEPT !.b = (c = Ord["t"])])
            ELSE IF kind = "iface" THEN store(IfaceV(BoolV(c = Ord["t"])))
            ELSE mismatch("bool")
       ELSE IF c = Ord["'"] THEN quoted(unquoteBytes(item))
       ELSE IF c = Ord["G"]
       THEN IF Len(item) < 2 THEN Res(d, ind.root, Panic)
            ELSE IF item[2] # Ord["-"] /\ ~IsDigit(item[2]) THEN Res(d, ind.root, errPhase)
            ELSE float(Tail(item), ParseFloat(Tail(item), IF kind = "float" THEN pv.t.bits ELSE 64))
       ELSE IF c = Ord["L"] /\ Len(item) < 2 THEN Res(d, ind.root, Panic)
       ELSE digits(IF c = Ord["L"] THEN Tail(item) ELSE item)

\* literalStore(item, v): decodes the literal item into v, fl the flags of v
literalStore(d, item, v, fl) ==
    IF Len(item) = 0 THEN Res(saveError(d, Err("empty string given")), v, NoErr)
    ELSE literalStoreAt(d, item, indirect(v, item[1] = Ord["?"], fl))

\* literalTextUnmarshaler(item, kv) for a key of type kt: [d, key, err]
textUnmarshaled(d, r) == [d |-> d, key |-> r.key, err |-> r.err]
textUnquoted(d, kt, s) ==
    IF ~s.ok THEN [d |-> d, key |-> KeyOf(Zero(kt)), err |-> errPhase]
    ELSE textUnmarshaled(d, UnmarshalText(kt, s.t))
literalTextUnmarshaler(d, item, kt) ==
    IF Len(item) = 0
    THEN [d |-> saveError(d, Err("empty string given")), key |-> KeyOf(Zero(kt)), err |-> NoErr]
    ELSE textUnquoted(d, kt, unquoteBytes(item))

RECURSIVE valueInterface(_)

\* literalInterface once the literal that began at start has been scanned
literalInterfaceItem(d, start) ==
    LET item == Slice(d.data, start, readIndex(d))
        c == item[1]
        it == IF c = Ord["L"] THEN Tail(item) ELSE item
        time(t) == IF t.ok THEN Res(d, IfaceV(t.t), NoErr)
                   ELSE Res(d, NilIface, Err("can not parse"))
        quoted(s) == IF s.ok THEN Res(d, IfaceV(StringV(s.t)), NoErr)
                     ELSE Res(d, NilIface, errPhase)
        number(cn) == IF cn.ok THEN Res(d, IfaceV(cn.v), NoErr)
                      ELSE Res(d, NilIface, cn.err)
    IN IF c = Ord["?"] THEN Res(d, NilIface, NoErr)
       ELSE IF c = Ord["D"] THEN time(convertTime(item))
       ELSE IF c \in {Ord["t"], Ord["f"]} THEN Res(d, IfaceV(BoolV(c = Ord["t"])), NoErr)
       ELSE IF c = Ord["'"] THEN quoted(unquote(item))
       ELSE IF Len(item) < 2 /\ c \in {Ord["G"], Ord["L"]} THEN Res(d, NilIface, Panic)
       ELSE IF c = Ord["G"]
       THEN IF item[2] # Ord["-"] /\ ~IsDigit(item[2]) THEN Res(d, NilIface, errPhase)
            ELSE number(convertFloat(d, Tail(item)))
       ELSE IF it[1] # Ord["-"] /\ ~IsDigit(it[1]) THEN Res(d, NilIface, errPhase)
       ELSE number(convertNumber(d, it))


\* literalInterface: [d, v, err], v the interface{} returned
literalInterface(d0) == literalInterfaceItem(scanWhile(d0, scanContinue), readIndex(d0))

\* the loop of arrayInterface with the elements v read so far
RECURSIVE arrayInterfaceLoop(_, _)
\* ... after the element r has been decoded
arrayInterfaceElem(v, r) ==
    LET next(d2) ==
            IF d2.opcode = scanEndArray THEN Res(d2, SliceV(IfaceT, Append(v, r.v)), NoErr)
            ELSE IF d2.opcode # scanArrayValue THEN Res(d2, NilV, errPhase)
            ELSE arrayInterfaceLoop(d2, Append(v, r.v))
    IN IF r.err # NoErr THEN Res(r.d, NilV, r.err)
       ELSE next(IF r.d.opcode = scanSkipSpace THEN scanWhile(r.d, scanSkipSpace) ELSE r.d)
\* ... after the space before the element
arrayInterfaceBegun(v, d) ==
    IF d.opcode = scanEndArray THEN Res(d, SliceV(IfaceT, v), NoErr)
    ELSE arrayInterfaceElem(v, valueInterface(d))
arrayInterfaceLoop(d0, v) == arrayInterfaceBegun(v, scanWhile(d0, scanSkipSpace))

arrayInterface(d) == arrayInterfaceLoop(d, <<>>)

\* the loop of objectInterface with the map m built so far
RECURSIVE objectInterfaceLoop(_, _)
\* ... after the member's value r has been decoded
objectInterfaceMember(m, key, r) ==
    LET m1 == (key.t :> r.v) @@ m
        next(d4) ==
            IF d4.opcode = scanEndObject THEN Res(d4, MapV(StringT, IfaceT, m1), NoErr)
            ELSE IF d4.opcode # scanObjectValue THEN Res(d4, NilV, errPhase)
            ELSE objectInterfaceLoop(d4, m1)
    IN IF r.err # NoErr THEN Res(r.d, NilV, r.err)
       ELSE next(IF r.d.opcode = scanSkipSpace THEN scanWhile(r.d, scanSkipSpace) ELSE r.d)
\* ... after the key has been unquoted and the space behind it read (d3)
objectInterfaceKeyed(m, d2, key, d3) ==
    IF ~key.ok THEN Res(d2, NilV, errPhase)
    ELSE IF d3.opcode # scanObjectKey THEN Res(d3, NilV, errPhase)
    ELSE objectInterfaceMember(m, key, valueInterface(scanWhile(d3, scanSkipSpace)))
\* ... after the key literal that began at start has been scanned
objectInterfaceKey(m, start, d2) ==
    objectInterfaceKeyed(m, d2, unquote(Slice(d2.data, start, readIndex(d2))),
        IF d2.opcode = scanSkipSpace THEN scanWhile(d2, scanSkipSpace) ELSE d2)
\* ... after the space before the key
objectInterfaceBegun(m, d1) ==
    IF d1.opcode = scanEndObject THEN Res(d1, MapV(StringT, IfaceT, m), NoErr)
    ELSE IF d1.opcode # scanBeginLiteral THEN Res(d1, NilV, errPhase)
    ELSE objectInterfaceKey(m, readIndex(d1), scanWhile(d1, scanContinue))
objectInterfaceLoop(d0, m) == objectInterfaceBegun(m, scanWhile(d0, scanSkipSpace))

\* objectInterface after the byte behind A<1,? has been read
objectInterfaceOpen(d) ==
    IF d.opcode = scanEndObject THEN Res(d, MapV(StringT, IfaceT, <<>>), NoErr)
    ELSE objectInterfaceLoop(d, <<>>)

objectInterface(d0) == objectInterfaceOpen(scanNext(d0))

\* valueInterface: [d, v, err], v the interface{} (NilIface or IfaceV(x))
valueInterface(d) ==
    LET done(r) ==
            Res(scanNext(r.d), IF r.err = NoErr THEN IfaceV(r.v) ELSE NilIface, r.err)
    IN IF d.opcode = scanBeginArray THEN done(arrayInterface(d))
       ELSE IF d.opcode = scanBeginObject
       THEN done(objectInterface(scanWhile(d, scanContinue)))
       ELSE IF d.opcode = scanBeginLiteral THEN literalInterface(d)
       ELSE Res(d, NilIface, errPhase)

RECURSIVE value(_, _, _)

\* d.skip() where no value is stored
skipRes(d, v) ==
    LET skipped(s) == Res(s.d, v, IF s.panic THEN Panic ELSE NoErr) IN skipped(skip(d))

\* the elements that v.SetLen(i) leaves in the array behind the slice v, in
\* front of those that were there; zero elements at the end are not kept, an
\* element the slice grows over is a zero element in either case
StaleOf(v, i) ==
    LET RECURSIVE trim(_)
        trim(s) == IF s # <<>> /\ s[Len(s)] = Zero(v.t.elem)
                   THEN trim(SubSeq(s, 1, Len(s) - 1)) ELSE s
    IN trim(SubSeq(v.e, i + 1, Len(v.e)) \o v.rest)

\* the end of array without the fresh slice for an array of no elements
arrayEndKeepNil(v, i) ==
    IF i < Len(v.e)
    THEN IF v.t.k = "array"
         THEN [v EXCEPT !.e = [j \in 1..Len(v.e) |-> IF j > i THEN Zero(v.t.elem) ELSE v.e[j]]]
         ELSE [v EXCEPT !.e = SubSeq(v.e, 1, i), !.rest = StaleOf(v, i)]
    ELSE v

\* the end of array: i elements were read into v
arrayEnd(v, i) ==
    LET v1 == IF i < Len(v.e)
              THEN IF v.t.k = "array"
                   THEN [v EXCEPT !.e = [j \in 1..Len(v.e) |->
                                            IF j > i THEN Zero(v.t.elem) ELSE v.e[j]]]
                   ELSE [v EXCEPT !.e = SubSeq(v.e, 1, i), !.rest = StaleOf(v, i)]
              ELSE v
    IN IF i = 0 /\ v.t.k = "slice" THEN [v1 EXCEPT !.nil = FALSE, !.e = <<>>, !.rest = <<>>]
       ELSE v1

\* the end of array panics: v.Index(i).Set(z), v.SetLen(i) or v.Set of a value
\* that is not settable
arrayEndPanics(v, fl, i) ==
    \/ i < Len(v.e) /\ ~CanSet(IF v.t.k = "array" THEN IndexFlag(fl, v.t) ELSE fl)
    \/ i = 0 /\ v.t.k = "slice" /\ ~CanSet(fl)

\* the loop of array at element i (0-based) of v with the flags fl
RECURSIVE arrayElems(_, _, _, _)
\* ... after element i has been decoded (r) into v1
arrayElemsElem(v1, fl, i, r) ==
    LET v2 == IF i < Len(v1.e) THEN [v1 EXCEPT !.e[i + 1] = r.v] ELSE v1
        next(d2) ==
            IF d2.opcode = scanEndArray
            THEN IF arrayEndPanics(v2, fl, i + 1) THEN Res(d2, v2, Panic)
                 ELSE Res(d2, arrayEnd(v2, i + 1), NoErr)
            ELSE IF d2.opcode # scanArrayValue THEN Res(d2, v2, errPhase)
            ELSE arrayElems(d2, v2, fl, i + 1)
    IN IF r.err # NoErr THEN Res(r.d, v2, r.err)
       ELSE next(IF r.d.opcode = scanSkipSpace THEN scanWhile(r.d, scanSkipSpace) ELSE r.d)
\* ... after the space before element i: a slice grows by v.Set(newv) when
\* i >= v.Cap() and by v.SetLen(i + 1) when i >= v.Len(), which uncovers the
\* element that the array behind the slice holds there
arrayElemsBegun(v, fl, i, d1) ==
    LET grows == v.t.k = "slice" /\ i >= Len(v.e)
        v1 == IF grows
              THEN [v EXCEPT !.nil = FALSE,
                             !.e = Append(@, IF v.rest # <<>> THEN Head(v.rest)
                                             ELSE Zero(v.t.elem)),
                             !.rest = IF v.rest # <<>> THEN Tail(v.rest) ELSE <<>>]
              ELSE v
    IN IF d1.opcode = scanEndArray
       THEN IF arrayEndPanics(v, fl, i) THEN Res(d1, v, Panic)
            ELSE Res(d1, arrayEnd(v, i), NoErr)
       ELSE IF grows /\ ~CanSet(fl) THEN Res(d1, v, Panic)
       ELSE arrayElemsElem(v1, fl, i,
                           IF i < Len(v1.e) THEN value(d1, v1.e[i + 1], IndexFlag(fl, v.t))
                           ELSE value(d1, NilV, NoFlag))
arrayElems(d0, v, fl, i) == arrayElemsBegun(v, fl, i, scanWhile(d0, scanSkipSpace))

\* array once indirect has returned ind
arrayAt(d, ind) ==
    LET pv == At(ind.root, ind.n)
        hook(s) ==
            IF s.panic THEN Res(s.d, ind.root, Panic)
            ELSE UnmarshalOscript(s.d, ind, Slice(d.data, readIndex(d), s.d.off))
        iface(r) ==
            IF r.err # NoErr THEN Res(r.d, ind.root, r.err)
            ELSE IF ~CanSet(ind.fl) THEN Res(r.d, ind.root, Panic)
            ELSE Res(r.d, SetAt(ind.root, ind.n, IfaceV(r.v)), NoErr)
        elems(r) == Res(r.d, SetAt(ind.root, ind.n, r.v), r.err)
    IN IF ind.panic THEN Res(d, ind.root, Panic)
       ELSE IF ind.u THEN hook(skip(d))
       ELSE IF Kind(pv.t) = "iface" THEN iface(arrayInterface(d))
       ELSE IF Kind(pv.t) \notin {"array", "slice"}
       THEN skipRes(saveError(d, UnmarshalTypeError("array", d.off)), ind.root)
       ELSE elems(arrayElems(d, pv, ind.fl, 0))

\* array(v): the first byte of the array has been read
array(d, v, fl) == arrayAt(d, indirect(v, FALSE, fl))

\* the name s of a field and the key t are equal but for case; for a name or
\* a key with bytes beyond ASCII only their equality is told
equalFold(s, t) ==
    IF s = t THEN TRUE
    ELSE IF \E i \in 1..Len(s) : s[i] >= RuneSelf THEN OutsideModel(s)
    ELSE IF \E i \in 1..Len(t) : t[i] >= RuneSelf THEN OutsideModel(t)
    ELSE Len(s) = Len(t) /\ \A i \in 1..Len(s) : Lower(s[i]) = Lower(t[i])

\* fmt.Errorf("oscript: unknown field %q", key)
UnknownField(key) == [kind |-> "UnknownField", msg |-> "", c |-> 0, off |-> 0, key |-> key]

\* the walk of object along f.index from sv with the flags fl, which allocates
\* the nil pointers on the way: [v, bad], v the struct with the pointers
\* allocated, bad when a nil pointer on the way cannot be set
RECURSIVE allocByIndex(_, _, _)
allocByIndex(sv, fl, index) ==
    IF index = <<>> THEN [v |-> sv, bad |-> FALSE]
    ELSE LET st == IF sv.t.k = "ptr" THEN (IF sv.nil THEN Zero(sv.t.elem) ELSE sv.v) ELSE sv
             sf == st.t.fields[Head(index)]
             below(r) ==
                 [v |-> IF sv.t.k = "ptr" THEN PtrV([st EXCEPT !.f[Head(index)] = r.v])
                        ELSE [st EXCEPT !.f[Head(index)] = r.v],
                  bad |-> r.bad]
         IN IF sv.t.k = "ptr" /\ sv.nil /\ ~CanSet(fl) THEN [v |-> sv, bad |-> TRUE]
            ELSE below(allocByIndex(st.f[Head(index)],
                                    FieldFlag(IF sv.t.k = "ptr" THEN ElemFlag(fl) ELSE fl, sf),
                                    Tail(index)))

\* v with the field at the index sequence replaced by x
RECURSIVE setFieldByIndex(_, _, _)
setFieldByIndex(sv, index, x) ==
    IF index = <<>> THEN x
    ELSE IF sv.t.k = "ptr"
    THEN PtrV([sv.v EXCEPT !.f[Head(index)] = setFieldByIndex(@, Tail(index), x)])
    ELSE [sv EXCEPT !.f[Head(index)] = setFieldByIndex(@, Tail(index), x)]

\* the field loop of object without the exact match: the first field that
\* matches the key under folding
findFieldFoldIn(v, fl, key, fields) ==
    LET fold == {i \in 1..Len(fields) : equalFold(fields[i].name, key)}
        first(S) == CHOOSE i \in S : \A j \in S : i <= j
        placed(f, a) == [found |-> TRUE, f |-> f, v |-> a.v, bad |-> a.bad]
        at(f) == IF f.value # NilV THEN [found |-> TRUE, f |-> f, v |-> v, bad |-> FALSE]
                 ELSE placed(f, allocByIndex(v, fl, f.index))
    IN IF fold # {} THEN at(fields[first(fold)])
       ELSE [found |-> FALSE, f |-> NilV, v |-> v, bad |-> FALSE]

\* the field loop of object: the field of the struct v that the key selects,
\* an exact match or else the first match under folding: [found, f, v, bad]
findFieldIn(v, fl, key, fields) ==
    LET exact == {i \in 1..Len(fields) : fields[i].name = key}
        fold == {i \in 1..Len(fields) : equalFold(fields[i].name, key)}
        first(S) == CHOOSE i \in S : \A j \in S : i <= j
        placed(f, a) == [found |-> TRUE, f |-> f, v |-> a.v, bad |-> a.bad]
        at(f) == IF f.value # NilV THEN [found |-> TRUE, f |-> f, v |-> v, bad |-> FALSE]
                 ELSE placed(f, allocByIndex(v, fl, f.index))
    IN IF exact # {} THEN at(fields[first(exact)])
       ELSE IF fold # {} THEN at(fields[first(fold)])
       ELSE [found |-> FALSE, f |-> NilV, v |-> v, bad |-> FALSE]
\* the field loop without the exact match: the first field that matches the
\* key under folding
findFieldFoldFirst(v, fl, key) ==
    findFieldFoldIn(v, fl, key, IF v.t.k = "struct" THEN cachedTypeFields(v.t) ELSE <<>>)
\* the field of the struct v that the key selects; typeFields finds no field
\* in time.Time, whose fields are unexported and carry no tag
findField(v, fl, key) ==
    findFieldIn(v, fl, key, IF v.t.k = "struct" THEN cachedTypeFields(v.t) ELSE <<>>)

\* the loop of object over the keys; v is the map or struct with the flags fl,
\* ctx0 the error context object was entered with
RECURSIVE objectLoop(_, _, _, _)
\* ... after the member's value r has been decoded; n is the key as an integer
objectLoopStored(v, fl, ctx0, start, key, f, r, n, isText, text) ==
    LET isMap == v.t.k = "map"
        kt == v.t.key
        badKey == \/ Kind(kt) = "int" /\ (~n.ok \/ OverflowInt(kt, n.n))
                  \/ Kind(kt) = "uint"
                     /\ (~ParseUint(key.t).ok \/ OverflowUint(kt, ParseUint(key.t).n))
        kv == IF Kind(kt) = "string" THEN key.t
              ELSE IF isText THEN text.key
              ELSE IF Kind(kt) = "int" THEN n.n
              ELSE ParseUint(key.t).n
        v1 == IF isMap THEN [v EXCEPT !.m = (kv :> r.v) @@ @]
              ELSE IF f.found /\ f.f.value = NilV /\ r.v # NilV
              THEN setFieldByIndex(v, f.f.index, r.v)
              ELSE v
        d4 == IF isMap /\ isText THEN text.d ELSE r.d
        next(d5) ==
            IF d5.opcode = scanEndObject THEN Res(d5, v1, NoErr)
            ELSE IF d5.opcode # scanObjectValue THEN Res(d5, v1, errPhase)
            ELSE objectLoop([d5 EXCEPT !.errorContext = ctx0], v1, fl, ctx0)
    IN IF r.err # NoErr
       THEN Res(r.d, IF isMap THEN v ELSE v1, r.err)
       ELSE IF isMap /\ isText /\ text.err # NoErr THEN Res(text.d, v, text.err)
       ELSE IF isMap /\ ~isText /\ badKey
       THEN Res(saveError(r.d, UnmarshalTypeErrorOf("number", key.t, start + 1)), v, NoErr)
       ELSE IF isMap /\ flagRO(fl) THEN Res(d4, v, Panic)
       ELSE next(IF d4.opcode = scanSkipSpace THEN scanWhile(d4, scanSkipSpace) ELSE d4)
\* ... isText: the key of the map is set from its text
objectLoopText(v, fl, ctx0, start, item, key, f, r, n, isText) ==
    objectLoopStored(v, fl, ctx0, start, key, f, r, n, isText,
        IF isText THEN literalTextUnmarshaler(r.d, item, v.t.key)
        ELSE [d |-> r.d, key |-> key.t, err |-> NoErr])
objectLoopMember(v, fl, ctx0, start, item, key, f, r, n) ==
    objectLoopText(v, fl, ctx0, start, item, key, f, r, n,
        v.t.k = "map" /\ Kind(v.t.key) # "string" /\ ImplementsTextUnmarshaler(v.t.key))
\* ... after the space behind the key (d4); d2 is the state behind the key literal
objectLoopKeyed(v, fl, ctx0, start, d2, key, f, d4) ==
    LET field == fieldByIndex(v, fl, f.f.index)
        sub == IF v.t.k = "map" THEN [v |-> Zero(v.t.elem), fl |-> Flag(TRUE, FALSE, FALSE)]
               ELSE IF ~f.found THEN [v |-> NilV, fl |-> NoFlag]
               ELSE IF f.f.value # NilV THEN [v |-> f.f.value, fl |-> Flag(TRUE, FALSE, FALSE)]
               ELSE IF f.bad THEN [v |-> NilV, fl |-> NoFlag]
               ELSE [v |-> field.v, fl |-> field.fl]
    IN IF ~key.ok THEN Res(d2, v, errPhase)
       ELSE IF d4.opcode # scanObjectKey THEN Res(d4, v, errPhase)
       ELSE objectLoopMember(v, fl, ctx0, start, Slice(d2.data, start, readIndex(d2)), key, f,
                             value(scanWhile(d4, scanSkipSpace), sub.v, sub.fl),
                             ParseInt(key.t))
\* ... after the field lookup, for a decoder that never reports an unknown key
objectLoopFieldLenient(v, fl, ctx0, start, d2, key, f) ==
    LET d3 == IF v.t.k = "map" \/ ~key.ok \/ ~f.found THEN d2
              ELSE [(IF f.bad THEN saveError(d2, Err("cannot set embedded pointer")) ELSE d2)
                       EXCEPT !.errorContext = [struct |-> v.t.name, field |-> f.f.name]]
    IN objectLoopKeyed(IF f.found /\ f.f.value = NilV THEN f.v ELSE v,
           fl, ctx0, start, d2, key, f,
           IF d3.opcode = scanSkipSpace THEN scanWhile(d3, scanSkipSpace) ELSE d3)
\* ... after the field f that the key selects has been looked up
objectLoopField(v, fl, ctx0, start, d2, key, f) ==
    LET d3 == IF v.t.k = "map" \/ ~key.ok THEN d2
              ELSE IF f.found
              THEN [(IF f.bad THEN saveError(d2, Err("cannot set embedded pointer")) ELSE d2)
                       EXCEPT !.errorContext = [struct |-> v.t.name, field |-> f.f.name]]
              ELSE IF d2.disallowUnknownFields THEN saveError(d2, UnknownField(key.t))
              ELSE d2
    IN objectLoopKeyed(IF f.found /\ f.f.value = NilV THEN f.v ELSE v,
           fl, ctx0, start, d2, key, f,
           IF d3.opcode = scanSkipSpace THEN scanWhile(d3, scanSkipSpace) ELSE d3)
\* ... after the key has been unquoted
objectLoopUnquoted(v, fl, ctx0, start, d2, key) ==
    objectLoopField(v, fl, ctx0, start, d2, key, findField(v, fl, key.t))
\* ... after the key literal that began at start has been scanned
objectLoopKey(v, fl, ctx0, start, d2) ==
    objectLoopUnquoted(v, fl, ctx0, start, d2,
                       unquoteBytes(Slice(d2.data, start, readIndex(d2))))
\* ... after the space before the key
objectLoopBegun(v, fl, ctx0, d1) ==
    IF d1.opcode = scanEndObject THEN Res(d1, v, NoErr)
    ELSE IF d1.opcode # scanBeginLiteral THEN Res(d1, v, errPhase)
    ELSE objectLoopKey(v, fl, ctx0, readIndex(d1), scanWhile(d1, scanContinue))
objectLoop(d0, v, fl, ctx0) == objectLoopBegun(v, fl, ctx0, scanWhile(d0, scanSkipSpace))

\* object of a struct or map pv1, after the byte behind A<1,? has been read
objectOpen(d, ind, pv1, d1) ==
    LET members(r) == Res(r.d, SetAt(ind.root, ind.n, r.v), r.err)
    IN IF d1.opcode = scanEndObject THEN Res(d1, SetAt(ind.root, ind.n, pv1), NoErr)
       ELSE members(objectLoop(d1, pv1, ind.fl, d.errorContext))

\* object once indirect has returned ind; v.Set(reflect.MakeMap(t)) of a nil
\* map that is not settable panics
objectAt(d, ind) ==
    LET pv == At(ind.root, ind.n)
        kind == Kind(pv.t)
        pv1 == IF kind = "map" THEN [pv EXCEPT !.nil = FALSE] ELSE pv
        hook(s) ==
            IF s.panic THEN Res(s.d, ind.root, Panic)
            ELSE UnmarshalOscript(s.d, ind, Slice(d.data, readIndex(d), s.d.off))
        iface(r) ==
            IF r.err # NoErr THEN Res(r.d, ind.root, r.err)
            ELSE IF ~CanSet(ind.fl) THEN Res(r.d, ind.root, Panic)
            ELSE Res(r.d, SetAt(ind.root, ind.n, IfaceV(r.v)), NoErr)
    IN IF ind.panic THEN Res(d, ind.root, Panic)
       ELSE IF ind.u THEN hook(skip(d))
       ELSE IF kind = "iface" THEN iface(objectInterface(d))
       ELSE IF ~(kind = "struct" \/ (kind = "map" /\ (Kind(pv.t.key) \in {"string", "int", "uint"}
                                                      \/ ImplementsTextUnmarshaler(pv.t.key))))
       THEN skipRes(saveError(d, UnmarshalTypeError("object", d.off + 1)), ind.root)
       ELSE IF kind = "map" /\ pv.nil /\ ~CanSet(ind.fl) THEN Res(d, ind.root, Panic)
       ELSE objectOpen(d, ind, pv1, scanNext(d))

\* object(v): the bytes up to the ? of A<1,? have been read
object(d, v, fl) == objectAt(d, indirect(v, FALSE, fl))

\* value at a literal that began at start, once it has been scanned
valueLiteral(d1, start, v, fl) ==
    IF v # NilV THEN literalStore(d1, Slice(d1.data, start, readIndex(d1)), v, fl)
    ELSE Res(d1, v, NoErr)

\* value at an object, once the bytes up to the ? of A<1,? have been scanned
valueObject(d1, v, fl) == IF v # NilV THEN object(d1, v, fl) ELSE skipRes(d1, v)

\* value(v): decodes the value whose first byte has been read into v, the
\* invalid Value NilV discards it; fl are the flags of v
value(d, v, fl) ==
    LET done(r) == IF r.err # NoErr THEN r ELSE Res(scanNext(r.d), r.v, NoErr)
    IN IF d.opcode = scanBeginArray
       THEN done(IF v # NilV THEN array(d, v, fl) ELSE skipRes(d, v))
       ELSE IF d.opcode = scanBeginObject
       THEN done(valueObject(scanWhile(d, scanContinue), v, fl))
       ELSE IF d.opcode = scanBeginLiteral
       THEN valueLiteral(scanWhile(d, scanContinue), readIndex(d), v, fl)
       ELSE Res(d, v, errPhase)

\* d.unmarshal(v): [v, err, hooks]; v is the interface{} argument
unmarshal(d, v) ==
    LET decoded(r) ==
            [v |-> r.v,
             err |-> IF r.err # NoErr THEN r.err ELSE r.d.savedError,
             hooks |-> r.d.hooks]
    IN IF v.t.k # "ptr" \/ v.nil
       THEN [v |-> v, err |-> Err("InvalidUnmarshalError"), hooks |-> <<>>]
       ELSE decoded(value(scanWhile([d EXCEPT !.scan = reset(d.scan)], scanSkipSpace),
                          v, NoFlag))


\* Unmarshal once checkValid has returned c
unmarshalChecked(data, v, c) ==
    IF c.err # NoErr THEN [v |-> v, err |-> c.err, hooks |-> <<>>]
    ELSE unmarshal(init(data, c.s), v)

\* Unmarshal without the checkValid pass
UnmarshalUnchecked(data, v) == unmarshal(init(data, ZeroScanner), v)

\* Unmarshal(data, v): [v, err, hooks]
Unmarshal(data, v) == unmarshalChecked(data, v, checkValid(data, ZeroScanner))

(***************************************************************************)
(* Streams (stream.go): Decoder over an io.Reader.  The reader r holds the  *)
(* bytes it has yet to deliver, gives at most r.chunk of them to one Read   *)
(* and returns r.fail (io.EOF or a read error) once they are used up;       *)
(* r.reads counts the calls of Read.                                       *)
(***************************************************************************)
tokenTopValue == 0
tokenArrayStart == 1
tokenArrayValue == 2
tokenArrayComma == 3
tokenObjectStart == 4
tokenObjectBeginKey == 5
tokenObjectKey == 6
tokenObjectEqually == 7
tokenObjectValue == 8
tokenObjectComma == 9

EOF == Err("EOF")
ErrUnexpectedEOF == Err("ErrUnexpectedEOF")

\* r.Read(p) with room for any number of bytes: [r, p, err]
Read(r) ==
    IF r.data = <<>> THEN [r |-> [r EXCEPT !.reads = @ + 1], p |-> <<>>, err |-> r.fail]
    ELSE LET n == IF Len(r.data) < r.chunk THEN Len(r.data) ELSE r.chunk
         IN [r |-> [r EXCEPT !.data = Slice(r.data, n, Len(r.data)), !.reads = @ + 1],
             p |-> Slice(r.data, 0, n), err |-> NoErr]

\* NewDecoder(r)
NewDecoder(r) ==
    [r |-> r, buf |-> <<>>, scanp |-> 0, scanned |-> 0, scan |-> ZeroScanner, err |-> NoErr,
     d |-> [disallowUnknownFields |-> FALSE], tokenState |-> tokenTopValue,
     tokenStack |-> <<>>]

\* dec.DisallowUnknownFields()
DisallowUnknownFields(d) == [d EXCEPT !.d.disallowUnknownFields = TRUE]

\* dec.Buffered(): the bytes of the reader it returns
Buffered(d) == Slice(d.buf, d.scanp, Len(d.buf))

\* refill that slides the consumed bytes down and with them the unread ones
refillLossy(d) ==
    LET slid == IF d.scanp > 0
                THEN [d EXCEPT !.scanned = @ + d.scanp, !.buf = <<>>, !.scanp = 0]
                ELSE d
        got(rd) == [dec |-> [slid EXCEPT !.r = rd.r, !.buf = @ \o rd.p], err |-> rd.err]
    IN got(Read(d.r))

\* dec.refill(): [dec, err]
refill(d) ==
    LET slid == IF d.scanp > 0
                THEN [d EXCEPT !.scanned = @ + d.scanp,
                               !.buf = Slice(d.buf, d.scanp, Len(d.buf)),
                               !.scanp = 0]
                ELSE d
        got(rd) == [dec |-> [slid EXCEPT !.r = rd.r, !.buf = @ \o rd.p], err |-> rd.err]
    IN got(Read(d.r))

nonSpace(b) == \E i \in 1..Len(b) : ~isSpace(b[i])

\* dec.offset()
offset(d) == d.scanned + d.scanp

\* the loop of dec.peek(): [dec, c, err]; err is its local
RECURSIVE peekLoop(_, _)
peekRefilled(rf) == peekLoop(rf.dec, rf.err)
\* ... i is the 0-based index of the first byte from dec.scanp on that is no
\* space, or -1
peekFound(d, err, i) ==
    IF i >= 0 THEN [dec |-> [d EXCEPT !.scanp = i], c |-> d.buf[i + 1], err |-> NoErr]
    ELSE IF err # NoErr THEN [dec |-> d, c |-> 0, err |-> err]
    ELSE peekRefilled(refill(d))
peekScan(buf, scanp) ==
    LET found == {i \in scanp..(Len(buf) - 1) : ~isSpace(buf[i + 1])}
    IN IF found = {} THEN -1 ELSE CHOOSE i \in found : \A j \in found : i <= j
peekLoop(d, err) == peekFound(d, err, peekScan(d.buf, d.scanp))

\* dec.peek(): [dec, c, err]
peek(d) == peekLoop(d, NoErr)

\* dec.tokenValueAllowed()
tokenValueAllowed(d) ==
    d.tokenState \in {tokenTopValue, tokenArrayStart, tokenArrayValue, tokenObjectValue}

\* tokenValueEnd that leaves the state of the value
tokenValueEndKeep(d) == d
\* dec.tokenValueEnd()
tokenValueEnd(d) ==
    IF d.tokenState \in {tokenArrayStart, tokenArrayValue}
    THEN [d EXCEPT !.tokenState = tokenArrayComma]
    ELSE IF d.tokenState = tokenObjectValue
    THEN [d EXCEPT !.tokenState = tokenObjectComma]
    ELSE d

\* &SyntaxError{msg, dec.offset()}
SyntaxErrAt(msg, d) == [kind |-> "syntax", msg |-> msg, c |-> 0, off |-> offset(d)]

\* tokenPrepareForDecode after dec.peek() has returned p: the byte wanted,
\* the state entered past it and the message when it is another byte
tokenPreparePeeked(p, want, state, msg) ==
    IF p.err # NoErr THEN [dec |-> p.dec, err |-> p.err]
    ELSE IF p.c # want THEN [dec |-> p.dec, err |-> SyntaxErrAt(msg, p.dec)]
    ELSE [dec |-> [p.dec EXCEPT !.scanp = @ + 1, !.tokenState = state], err |-> NoErr]

\* dec.tokenPrepareForDecode(): [dec, err]
tokenPrepareForDecode(d) ==
    IF d.tokenState = tokenArrayComma
    THEN tokenPreparePeeked(peek(d), Ord[","], tokenArrayValue,
                            "expected comma after array element")
    ELSE IF d.tokenState = tokenObjectEqually
    THEN tokenPreparePeeked(peek(d), Ord["="], tokenObjectValue,
                            "expected equally after object key")
    ELSE [dec |-> d, err |-> NoErr]

\* the inner loop of readValue over dec.buf at 0-based i: [k, s, scanp] with k
\* "end" (a value ends before scanp), "error" or "more" (the buffer is used up)
RECURSIVE readValueScan(_, _, _)
\* ... after the byte at i was stepped (r) and a space after it (sp)
readValueStepped(buf, i, r, sp) ==
    IF r.op = scanEnd THEN [k |-> "end", s |-> r.s, scanp |-> i]
    ELSE IF r.op \in {scanEndObject, scanEndArray}
    THEN IF sp.op = scanEnd THEN [k |-> "end", s |-> sp.s, scanp |-> i + 1]
         ELSE readValueScan(buf, sp.s, i + 1)
    ELSE IF r.op = scanError THEN [k |-> "error", s |-> r.s, scanp |-> i]
    ELSE readValueScan(buf, r.s, i + 1)
\* ... without the invented space: the end of an object or array is found
\* with the byte after it
readValueByteWaiting(buf, i, r) == readValueStepped(buf, i, r, R(r.s, scanContinue))
readValueByte(buf, i, r) == readValueStepped(buf, i, r, step(r.s, Ord[" "]))
readValueScan(buf, s, i) ==
    IF i >= Len(buf) THEN [k |-> "more", s |-> s, scanp |-> Len(buf)]
    ELSE readValueByte(buf, i, step([s EXCEPT !.bytes = @ + 1], buf[i + 1]))

\* the loop Input of readValue: [dec, n, err]; scanp and err are its locals
RECURSIVE readValueInput(_, _, _)
\* ... after dec.refill() (rf), n bytes of the buffer having been scanned
readValueRefilled(n, rf) == readValueInput(rf.dec, rf.dec.scanp + n, rf.err)
\* ... that returns io.EOF whatever the buffer holds
readValueScannedPlain(d, err, sc, sp) ==
    IF sc.k = "end" THEN [dec |-> [d EXCEPT !.scan = sc.s], n |-> sc.scanp - d.scanp, err |-> NoErr]
    ELSE IF sc.k = "error"
    THEN [dec |-> [d EXCEPT !.scan = sc.s, !.err = sc.s.err], n |-> 0, err |-> sc.s.err]
    ELSE IF err # NoErr
    THEN [dec |-> [d EXCEPT !.scan = sc.s, !.err = err], n |-> 0, err |-> err]
    ELSE readValueRefilled(Len(d.buf) - d.scanp, refill([d EXCEPT !.scan = sc.s]))
\* ... after the buffer was scanned (sc); sp is a space stepped at its end
readValueScanned(d, err, sc, sp) ==
    IF sc.k = "end" THEN [dec |-> [d EXCEPT !.scan = sc.s], n |-> sc.scanp - d.scanp, err |-> NoErr]
    ELSE IF sc.k = "error"
    THEN [dec |-> [d EXCEPT !.scan = sc.s, !.err = sc.s.err], n |-> 0, err |-> sc.s.err]
    ELSE IF err # NoErr
    THEN IF err = EOF /\ sp.op = scanEnd
         THEN [dec |-> [d EXCEPT !.scan = sp.s], n |-> Len(d.buf) - d.scanp, err |-> NoErr]
         ELSE IF err = EOF /\ nonSpace(d.buf)
         THEN [dec |-> [d EXCEPT !.scan = sp.s, !.err = ErrUnexpectedEOF],
               n |-> 0, err |-> ErrUnexpectedEOF]
         ELSE [dec |-> [d EXCEPT !.scan = IF err = EOF THEN sp.s ELSE sc.s, !.err = err],
               n |-> 0, err |-> err]
    ELSE readValueRefilled(Len(d.buf) - d.scanp, refill([d EXCEPT !.scan = sc.s]))
readValueSpaced(d, err, sc) == readValueScanned(d, err, sc, step(sc.s, Ord[" "]))
readValueInput(d, scanp, err) == readValueSpaced(d, err, readValueScan(d.buf, d.scan, scanp))

\* dec.readValue(): [dec, n, err]
readValue(d) == readValueInput([d EXCEPT !.scan = reset(d.scan)], d.scanp, NoErr)

\* Decode after readValue has returned rv: [dec, v, err, hooks]
decodeRead(v, rv) ==
    LET decoded(d, u) == [dec |-> tokenValueEnd(d), v |-> u.v, err |-> u.err,
                          hooks |-> u.hooks]
    IN IF rv.err # NoErr THEN [dec |-> rv.dec, v |-> v, err |-> rv.err, hooks |-> <<>>]
       ELSE decoded([rv.dec EXCEPT !.scanp = @ + rv.n],
                    unmarshal([init(Slice(rv.dec.buf, rv.dec.scanp, rv.dec.scanp + rv.n),
                                    ZeroScanner)
                                  EXCEPT !.disallowUnknownFields = rv.dec.d.disallowUnknownFields],
                              v))

\* Decode after tokenPrepareForDecode has returned prep
decodePrepared(v, prep) ==
    IF prep.err # NoErr THEN [dec |-> prep.dec, v |-> v, err |-> prep.err, hooks |-> <<>>]
    ELSE IF ~tokenValueAllowed(prep.dec)
    THEN [dec |-> prep.dec, v |-> v, err |-> SyntaxErrAt("not at beginning of value", prep.dec),
          hooks |-> <<>>]
    ELSE decodeRead(v, readValue(prep.dec))

\* Decode without dec.err: it reads on after an error
DecodeForgetful(d, v) == decodePrepared(v, tokenPrepareForDecode([d EXCEPT !.err = NoErr]))

\* dec.Decode(v): [dec, v, err, hooks]
Decode(d, v) ==
    IF d.err # NoErr THEN [dec |-> d, v |-> v, err |-> d.err, hooks |-> <<>>]
    ELSE decodePrepared(v, tokenPrepareForDecode(d))

\* Delim(c), a token, for the byte c; Delim(ch) for the character ch
DelimOf(c) == [k |-> "Delim", c |-> c]
Delim(ch) == DelimOf(Ord[ch])
\* the nil Token returned with an error
NoToken == [k |-> "nil"]

\* dec.tokenError(c): [dec, tok, err]
tokenError(d, c) ==
    LET context ==
          CASE d.tokenState \in {tokenTopValue, tokenArrayStart, tokenArrayValue,
                                 tokenObjectValue} -> " looking for beginning of value"
            [] d.tokenState = tokenArrayComma -> " after array element"
            [] d.tokenState = tokenObjectKey -> " looking for beginning of object key string"
            [] d.tokenState = tokenObjectEqually -> " after object key"
            [] d.tokenState = tokenObjectComma -> " after object key:value pair"
            [] OTHER -> ""
    IN [dec |-> d, tok |-> NoToken, err |-> SyntaxErr(context, c, offset(d))]

\* Token: dec.tokenStack = append(dec.tokenStack, dec.tokenState) and the
\* state of the composite opened
tokenPush(d, state, c) ==
    [dec |-> [d EXCEPT !.scanp = @ + 1, !.tokenStack = Append(@, d.tokenState),
                       !.tokenState = state],
     tok |-> DelimOf(c), err |-> NoErr]

\* Token: the state is taken off dec.tokenStack, then dec.tokenValueEnd();
\* the index expression panics on an empty stack
tokenPop(d, c) ==
    IF d.tokenStack = <<>> THEN [dec |-> d, tok |-> NoToken, err |-> Panic]
    ELSE [dec |-> tokenValueEnd([d EXCEPT !.scanp = @ + 1,
                                          !.tokenState = d.tokenStack[Len(d.tokenStack)],
                                          !.tokenStack = SubSeq(@, 1, Len(@) - 1)]),
          tok |-> DelimOf(c), err |-> NoErr]

\* Token after the dec.Decode(&x) of a key (x a string, decoded with the
\* state tokenTopValue and the state old restored after it) or of a value
\* (x an interface{}) has returned r
tokenDecoded(key, old, r) ==
    IF r.err # NoErr
    THEN [dec |-> IF key THEN [r.dec EXCEPT !.tokenState = old] ELSE r.dec,
          tok |-> NoToken, err |-> r.err]
    ELSE [dec |-> IF key THEN [r.dec EXCEPT !.tokenState = tokenObjectEqually] ELSE r.dec,
          tok |-> r.v.v, err |-> NoErr]

\* Token: a closing delimiter met in any state of either composite closes it
tokenClosesAny(st, c) ==
    st \in {tokenArrayStart, tokenArrayComma, tokenObjectStart, tokenObjectComma}
\* Token: the states in which the closing delimiter c closes the composite
tokenCloses(st, c) ==
    IF c = Ord["}"] THEN st \in {tokenArrayStart, tokenArrayComma}
    ELSE st \in {tokenObjectStart, tokenObjectComma}

\* the cases of the switch in Token for the byte c met in the state st: what
\* Token does (op) and the state it enters
tokenDefault(st, c) ==
    IF c = Ord["1"] /\ st = tokenObjectStart THEN [op |-> "continue", state |-> st]
    ELSE IF c \in {Ord["?"], Ord["N"]} /\ st = tokenObjectStart
    THEN [op |-> "continue", state |-> tokenObjectBeginKey]
    ELSE IF st \notin {tokenTopValue, tokenArrayStart, tokenArrayValue, tokenObjectValue}
    THEN [op |-> "error", state |-> st]
    ELSE [op |-> "value", state |-> st]
tokenCase(st, c) ==
    CASE c = Ord["{"] ->
           IF st \notin {tokenTopValue, tokenArrayStart, tokenArrayValue, tokenObjectValue}
           THEN [op |-> "error", state |-> st]
           ELSE [op |-> "push", state |-> tokenArrayStart]
      [] c = Ord["}"] ->
           IF ~tokenCloses(st, c) THEN [op |-> "error", state |-> st]
           ELSE [op |-> "pop", state |-> st]
      [] c = Ord["A"] ->
           IF st \notin {tokenTopValue, tokenArrayStart, tokenArrayValue, tokenObjectValue}
           THEN [op |-> "error", state |-> st]
           ELSE [op |-> "push", state |-> tokenObjectStart]
      [] c = Ord["<"] ->
           IF st # tokenObjectStart THEN [op |-> "error", state |-> st]
           ELSE [op |-> "continue", state |-> st]
      [] c = Ord[">"] ->
           IF ~tokenCloses(st, c) THEN [op |-> "error", state |-> st]
           ELSE [op |-> "pop", state |-> st]
      [] c = Ord["="] ->
           IF st # tokenObjectEqually THEN [op |-> "error", state |-> st]
           ELSE [op |-> "continue", state |-> tokenObjectValue]
      [] c = Ord[","] ->
           IF st = tokenArrayComma THEN [op |-> "continue", state |-> tokenArrayValue]
           ELSE IF st = tokenObjectComma THEN [op |-> "continue", state |-> tokenObjectKey]
           ELSE IF st = tokenObjectStart THEN [op |-> "continue", state |-> st]
           ELSE IF st = tokenObjectBeginKey THEN [op |-> "continue", state |-> tokenObjectKey]
           ELSE [op |-> "error", state |-> st]
      [] c = Ord["'"] /\ st = tokenObjectKey -> [op |-> "key", state |-> st]
      [] OTHER -> tokenDefault(st, c)

\* the loop of Token after dec.peek() has returned p: [dec, tok, err]
RECURSIVE tokenPeeked(_)
\* ... what the case w of the byte c does to the decoder d
tokenDo(d, c, w) ==
    CASE w.op = "error" -> tokenError(d, c)
      [] w.op = "push" -> tokenPush(d, w.state, c)
      [] w.op = "pop" -> tokenPop(d, c)
      [] w.op = "continue" ->
           tokenPeeked(peek([d EXCEPT !.scanp = @ + 1, !.tokenState = w.state]))
      [] OTHER ->
           tokenDecoded(w.op = "key", d.tokenState,
                        Decode([d EXCEPT !.tokenState = IF w.op = "key" THEN tokenTopValue
                                                        ELSE @],
                               PtrV(IF w.op = "key" THEN Zero(StringT) ELSE NilIface)))
tokenPeeked(p) ==
    IF p.err # NoErr THEN [dec |-> p.dec, tok |-> NoToken, err |-> p.err]
    ELSE tokenDo(p.dec, p.c, tokenCase(p.dec.tokenState, p.c))

\* dec.Token(): [dec, tok, err]
Token(d) == tokenPeeked(peek(d))

\* dec.More(): [dec, more]
morePeeked(p) ==
    [dec |-> p.dec, more |-> p.err = NoErr /\ p.c \notin {Ord["}"], Ord[">"]}]
More(d) == morePeeked(peek(d))

\* the error of an io.Writer that takes no more bytes
ErrWrite == Err("write failed")

\* w.Write(p) of a writer with room for w.room more bytes: [w, n, err]; a
\* write that does not fit is cut short and returns the error
Write(w, p) ==
    IF Len(p) <= w.room
    THEN [w |-> [w EXCEPT !.data = @ \o p, !.room = @ - Len(p)], n |-> Len(p), err |-> NoErr]
    ELSE [w |-> [w EXCEPT !.data = @ \o Slice(p, 0, w.room), !.room = 0],
          n |-> w.room, err |-> ErrWrite]

\* NewEncoder(w)
NewEncoder(w) == [w |-> w, err |-> NoErr, enabledEncodeNL |-> FALSE]

\* enc.EnableEncodeNL()
EnableEncodeNL(e) == [e EXCEPT !.enabledEncodeNL = TRUE]

\* Encode after enc.w.Write(b) has returned wr
encodeWritten(e, wr) ==
    [enc |-> [e EXCEPT !.w = wr.w, !.err = IF wr.err # NoErr THEN wr.err ELSE @],
     err |-> wr.err]

\* Encode after e.marshal(v) has returned m
encodeMarshaledAnyway(e, m) ==
    [enc |-> encodeWritten(e, Write(e.w, m.buf \o (IF e.enabledEncodeNL THEN <<10>> ELSE <<>>))).enc,
     err |-> m.err]
encodeMarshaled(e, m) ==
    IF m.err # NoErr THEN [enc |-> e, err |-> m.err]
    ELSE encodeWritten(e, Write(e.w, m.buf \o (IF e.enabledEncodeNL THEN <<10>> ELSE <<>>)))

\* Encode without the test of enc.err
EncodeUnlatched(e, v, mk) == encodeMarshaled(e, Marshal(v, mk))

\* enc.Encode(v) when the keys of the maps come in the order mk: [enc, err]
Encode(e, v, mk) ==
    IF e.err # NoErr THEN [enc |-> e, err |-> e.err]
    ELSE encodeMarshaled(e, Marshal(v, mk))

(***************************************************************************)
(* Driver of the scanner and of Compact: the caller assembles an input     *)
(* chunk by chunk while checkValid's loop scans it, then calls Compact on  *)
(* it, and Compact again on what the first call appended.                  *)
(***************************************************************************)
MaxChunks == 6
MaxStr == 4

\* no Encoder or Decoder has been made
NoStream == [k |-> "none"]

Sep8 == <<226, 128, 168>>   \* U+2028 in UTF-8
Sep9 == <<226, 128, 169>>   \* U+2029 in UTF-8

\* what the caller writes between and around values
TopChunks ==
    { B(<<"{">>), B(<<"}">>), B(<<",">>), B(<<" ">>), B(<<"\n">>), B(<<"1">>),
      B(<<"?">>), B(<<"'">>), B(<<"=">>), B(<<">">>), B(<<"x">>),
      B(<<"A", "<", "1", ",", "?">>), Sep8, Sep9 }
\* what the caller writes inside a string literal
StrChunks ==
    { B(<<"'">>), B(<<"\\">>), B(<<" ">>), B(<<"{">>), Sep8, Sep9, <<226, 128>> }

\* A reference reading of where string literals lie, independent of the
\* scanner: mode is "out", "in" (inside a literal) or "esc" (after a
\* backslash inside a literal); run counts the bytes of the open literal.
RECURSIVE LexAfter(_, _)
LexAfter(data, n) ==
    IF n = 0 THEN [mode |-> "out", run |-> 0]
    ELSE LET p == LexAfter(data, n - 1)
             c == data[n]
         IN CASE p.mode = "out" ->
                    IF c = Ord["'"] THEN [mode |-> "in", run |-> 0] ELSE p
              [] p.mode = "in" ->
                    IF c = Ord["'"] THEN [mode |-> "out", run |-> 0]
                    ELSE IF c = Ord["\\"] THEN [mode |-> "esc", run |-> p.run + 1]
                    ELSE [mode |-> "in", run |-> p.run + 1]
              [] OTHER -> [mode |-> "in", run |-> p.run + 1]

\* U+2028 or U+2029 starts at the 1-based index i of data
SepAt(data, i) ==
    /\ i + 2 <= Len(data)
    /\ data[i] = 226 /\ data[i + 1] = 128 /\ data[i + 2] \in {168, 169}

InitScan ==
    /\ phase = "feed"
    /\ src = <<>>
    /\ fed = 0
    /\ scan = reset(ZeroScanner)
    /\ out0 = <<>> /\ out = <<>> /\ out2 = <<>>
    /\ cerr = NoErr
    /\ val = [k |-> "none"] /\ dst = [k |-> "none"] /\ dst0 = [k |-> "none"]
    /\ hooks = <<>> /\ toks = <<>> /\ more = FALSE
    /\ NoCategories /\ NoGoroutines
    /\ enc = NoStream /\ dec = NoStream

\* the caller extends the input; checkValid's loop steps over the new bytes
Feed(chunk) ==
    /\ phase = "feed"
    /\ scan.err = NoErr
    /\ fed < MaxChunks
    /\ LET lx == LexAfter(src, Len(src)) IN
         IF lx.mode = "out" THEN chunk \in TopChunks
         ELSE /\ chunk \in StrChunks
              /\ (lx.mode = "in" /\ chunk = B(<<"'">>)) \/ lx.run + Len(chunk) <= MaxStr
    /\ src' = src \o chunk
    /\ fed' = fed + 1
    /\ scan' = checkValidLoop(chunk, 1, scan).s
    /\ UNCHANGED <<phase, out0, out, out2, cerr, val, dst, dst0, hooks, enc, dec, toks, more, catVars, goVars>>

\* Compact(&buf, src) with buf holding pre
CallCompact(pre) ==
    /\ phase = "feed"
    /\ \E r \in {Compact(pre, src)} :
         /\ out0' = pre
         /\ out' = r.dst
         /\ cerr' = r.err
    /\ phase' = "compacted"
    /\ UNCHANGED <<src, fed, scan, out2, val, dst, dst0, hooks, enc, dec, toks, more, catVars, goVars>>

\* the bytes the first call appended to the buffer
Appended == Slice(out, Len(out0), Len(out))

\* Compact(&buf2, appended) on an empty buffer
CallCompactAgain ==
    /\ phase = "compacted"
    /\ cerr = NoErr
    /\ \E r \in {Compact(<<>>, Appended)} :
         /\ out2' = r.dst
         /\ cerr' = r.err
    /\ phase' = "recompacted"
    /\ UNCHANGED <<src, fed, scan, out0, out, val, dst, dst0, hooks, enc, dec, toks, more, catVars, goVars>>

Prefixes == { <<>>, B(<<"x">>) }

NextScan ==
    \/ \E chunk \in TopChunks \cup StrChunks : Feed(chunk)
    \/ \E pre \in Prefixes : CallCompact(pre)
    \/ CallCompactAgain

SpecScan == InitScan /\ [][NextScan]_vars

(***************************************************************************)
(* Driver of the encoder: a caller marshals a value, then compacts the     *)
(* encoding or unmarshals it into a zero value of the same type.           *)
(***************************************************************************)
MaxStrChunks == 2
MaxElems == 2

\* the characters strings are built from: plain, quotes, backslash, control
\* bytes, an invalid UTF-8 byte, U+2028 and a two-byte rune
StrAlphabet == { B(<<"a">>), B(<<"'">>), B(<<"\\">>), B(<<"\"">>), <<10>>, <<1>>, <<255>>,
                 Sep8, <<195, 169>> }

RECURSIVE StringsUpTo(_)
StringsUpTo(n) ==
    IF n = 0 THEN {<<>>}
    ELSE LET S == StringsUpTo(n - 1) IN S \cup {s \o c : s \in S, c \in StrAlphabet}

SeqsUpTo(S, n) == UNION {[1..k -> S] : k \in 0..n}
MapsUpTo(K, V, n) == UNION {[D -> V] : D \in {D \in SUBSET K : Cardinality(D) <= n}}

\* type T1 struct { X int; Y string `oscript:"a"`; x string; Z []int `oscript:",omitempty"` }
T1 == StructT("T1", <<SF(B(<<"X">>), NoTag, IntT(64)),
                      SF(B(<<"Y">>), Tag(B(<<"a">>)), StringT),
                      SF(B(<<"x">>), NoTag, StringT),
                      SF(B(<<"Z">>), [NoTag EXCEPT !.omitempty = TRUE], SliceT(IntT(64)))>>,
              FALSE)
\* type T2 struct { X int8; Y string `oscript:"a"` }
T2 == StructT("T2", <<SF(B(<<"X">>), NoTag, IntT(8)), SF(B(<<"Y">>), Tag(B(<<"a">>)), StringT)>>,
              FALSE)

\* the values of type t the driver draws from; below the top level strings
\* have at most one character and collections at most one element, and inside
\* those there are two integers and three strings
RECURSIVE ValuesOf(_, _)
RECURSIVE FieldValues(_, _, _)
FieldValues(fields, i, depth) ==
    IF i > Len(fields) THEN {<<>>}
    ELSE {<<x>> \o rest : x \in ValuesOf(fields[i].typ, depth),
                          rest \in FieldValues(fields, i + 1, depth)}

ValuesOf(t, depth) ==
    LET n == IF depth = 0 THEN MaxElems ELSE 1
        sub(e) == ValuesOf(e, depth + 1)
    IN CASE t.k = "bool" -> {BoolV(TRUE), BoolV(FALSE)}
         [] t.k = "int" ->
               {[t |-> t, n |-> x] : x \in IF depth >= 2 THEN {-1, 7}
                                            ELSE IF t.bits = 8 THEN {-1, 0, 7}
                                            ELSE {-1, 0, 7, 300}}
         [] t.k = "uint" -> {[t |-> t, n |-> x] : x \in {0, 7, 255}}
         [] t.k = "string" ->
               {StringV(s) : s \in IF depth >= 2 THEN {<<>>, <<10>>, B(<<"'">>)}
                                    ELSE StringsUpTo(IF depth = 0 THEN MaxStrChunks ELSE 1)}
         [] t.k = "time" -> {TimeV(y, 12, 4, 11, 47, 16) : y \in {-1, 1, 2019}}
         [] t = TextT ->
               {TextV(a, b) : a \in {<<>>, B(<<"a">>), B(<<"x">>)}, b \in {<<>>, B(<<"y">>)}}
               \cup {TextV(B(<<"a", ":">>), B(<<"y">>)), TextV(B(<<"a">>), B(<<":", "y">>))}
         [] t.k = "float" ->
               {Float(t.bits, FALSE, <<>>, 0), Float(t.bits, FALSE, <<1, 5>>, 1),
                Float(t.bits, TRUE, <<1, 2, 5>>, -6), Float(t.bits, FALSE, <<1>>, 22),
                Inf(t.bits, FALSE), NaN(t.bits)}
         [] t.k = "chan" -> {ChanV}
         [] t.k = "iface" ->
               {NilIface} \cup {IfaceV(x) : x \in {IntV(64, 7), StringV(B(<<"a">>)),
                                                   BoolV(TRUE), PtrV(IntV(64, 7))}}
         [] t.k = "slice" ->
               {NilSlice(t.elem)} \cup {SliceV(t.elem, s) : s \in SeqsUpTo(sub(t.elem), n)}
         [] t.k = "array" -> {[t |-> t, e |-> s] : s \in [1..t.n -> sub(t.elem)]}
         [] t.k = "map" ->
               {NilMap(t.key, t.elem)} \cup
               {MapV(t.key, t.elem, m) :
                    m \in MapsUpTo(IF Kind(t.key) \in {"string", "int", "uint"} \/ t.key = TextT
                                    THEN {KeyOf(kv) : kv \in sub(t.key)} ELSE {},
                                    sub(t.elem), n)}
         [] t.k = "ptr" -> {NilPtr(t.elem)} \cup {PtrV(x) : x \in sub(t.elem)}
         [] t = FileAttr ->
               {[t |-> t, f |-> <<IntV(64, 0), TimeV(2019, 12, 4, 11, 47, 16),
                                  TimeV(1, 12, 4, 11, 47, 16), StringV(s), IntV(64, sz)>>] :
                    s \in {<<>>, B(<<"a">>)}, sz \in {0, 7}}
         [] t.k = "struct" /\ t \notin {FileAttr, TextT} ->
               {[t |-> t, f |-> s] : s \in FieldValues(t.fields, 1, depth + 1)}
         [] t.k = "invalid" -> {NilV}

SampleTypes ==
    { BoolT, IntT(64), IntT(8), StringT, TimeT, ChanT, IfaceT, FloatT(64),
      SliceT(IntT(64)), SliceT(StringT), SliceT(T2), ArrayT(2, BoolT),
      MapT(StringT, IntT(64)), MapT(IntT(64), StringT), MapT(BoolT, BoolT),
      MapT(TextT, IntT(64)),
      PtrT(StringT), T1, T2 }

InitMarshal ==
    /\ phase = "value"
    /\ \E t \in SampleTypes \cup {NilV.t} : val \in ValuesOf(t, 0)
    /\ src = <<>> /\ fed = 0 /\ scan = reset(ZeroScanner)
    /\ out0 = <<>> /\ out = <<>> /\ out2 = <<>> /\ cerr = NoErr
    /\ dst = [k |-> "none"] /\ dst0 = [k |-> "none"] /\ hooks = <<>> /\ toks = <<>> /\ more = FALSE
    /\ NoCategories /\ NoGoroutines
    /\ enc = NoStream /\ dec = NoStream

\* b, err := Marshal(val)
CallMarshal ==
    /\ phase = "value"
    /\ \E mk \in MapKeysOrders(val) :
         \E r \in {Marshal(val, mk)} :
             /\ out' = r.buf
             /\ cerr' = r.err
    /\ phase' = "marshaled"
    /\ UNCHANGED <<src, fed, scan, out0, out2, val, dst, dst0, hooks, enc, dec, toks, more, catVars, goVars>>

\* err := Compact(&buf, b) on an empty buffer
CallCompactMarshaled ==
    /\ phase = "marshaled" /\ cerr = NoErr
    /\ \E r \in {Compact(<<>>, out)} :
         /\ out2' = r.dst
         /\ cerr' = r.err
    /\ phase' = "marshal-compacted"
    /\ UNCHANGED <<src, fed, scan, out0, out, val, dst, dst0, hooks, enc, dec, toks, more, catVars, goVars>>

\* var w T; err := Unmarshal(b, &w)
CallUnmarshalMarshaled ==
    /\ phase = "marshaled" /\ cerr = NoErr /\ val # NilV
    /\ \E r \in {Unmarshal(out, PtrV(Zero(val.t)))} :
         /\ dst' = r.v.v
         /\ cerr' = r.err
         /\ hooks' = r.hooks
    /\ src' = out
    /\ dst0' = Zero(val.t)
    /\ phase' = "unmarshaled"
    /\ UNCHANGED <<fed, scan, out0, out, out2, val, enc, dec, toks, more, catVars, goVars>>

NextMarshal == CallMarshal \/ CallCompactMarshaled \/ CallUnmarshalMarshaled

SpecMarshal == InitMarshal /\ [][NextMarshal]_vars

(***************************************************************************)
(* Driver of the encoder's hooks: a caller holds a value with FileAttr     *)
(* records in it, whose pointer type has MarshalOscriptBuf, and calls      *)
(* Marshal.                                                                *)
(***************************************************************************)
\* type Attrs struct { F FileAttr }
Attrs == StructT("Attrs", <<SF(B(<<"F">>), NoTag, FileAttr)>>, FALSE)

AttrTypes ==
    { FileAttr, PtrT(FileAttr), SliceT(FileAttr), ArrayT(1, FileAttr),
      PtrT(ArrayT(1, FileAttr)), Attrs, PtrT(Attrs), MapT(StringT, FileAttr), IfaceT }

AttrValues(t) ==
    IF t = IfaceT THEN {IfaceV(x) : x \in ValuesOf(FileAttr, 1) \cup ValuesOf(PtrT(FileAttr), 1)}
    ELSE ValuesOf(t, 0)

InitAttr ==
    /\ phase = "value"
    /\ \E t \in AttrTypes : val \in AttrValues(t)
    /\ src = <<>> /\ fed = 0 /\ scan = reset(ZeroScanner)
    /\ out0 = <<>> /\ out = <<>> /\ out2 = <<>> /\ cerr = NoErr
    /\ dst = [k |-> "none"] /\ dst0 = [k |-> "none"] /\ hooks = <<>> /\ toks = <<>> /\ more = FALSE
    /\ NoCategories /\ NoGoroutines
    /\ enc = NoStream /\ dec = NoStream

NextAttr == CallMarshal

SpecAttr == InitAttr /\ [][NextAttr]_vars

(***************************************************************************)
(* Driver of the round trip of collections: a caller holds a slice, an     *)
(* array or a map, nil, empty or filled, and a destination w with prior    *)
(* contents; it calls Marshal(val), Unmarshal(b, &w) and Marshal(w).       *)
(***************************************************************************)
RoundValues ==
    ValuesOf(SliceT(IntT(64)), 0) \cup ValuesOf(SliceT(UintT(8)), 0)
    \cup ValuesOf(ArrayT(0, IntT(64)), 0) \cup ValuesOf(ArrayT(0, UintT(8)), 0)
    \cup {NilMap(StringT, IntT(64))}
    \cup {MapV(StringT, IntT(64), m) :
              m \in MapsUpTo({B(<<"a">>), B(<<"b">>)}, {IntV(64, 7), IntV(64, 300)}, MaxElems)}

RoundDests ==
    { NilSlice(IntT(64)), SliceV(IntT(64), <<>>), SliceV(IntT(64), <<IntV(64, 5)>>),
      NilSlice(UintT(8)), SliceV(UintT(8), <<>>), SliceV(UintT(8), <<UintV(8, 5)>>),
      ArrayV(IntT(64), <<>>), ArrayV(IntT(64), <<IntV(64, 5)>>),
      NilMap(StringT, IntT(64)), MapV(StringT, IntT(64), <<>>),
      MapV(StringT, IntT(64), B(<<"c">>) :> IntV(64, 5)) }

InitRound ==
    /\ phase = "value"
    /\ val \in RoundValues
    /\ dst0 \in RoundDests
    /\ dst = dst0
    /\ src = <<>> /\ fed = 0 /\ scan = reset(ZeroScanner)
    /\ out0 = <<>> /\ out = <<>> /\ out2 = <<>> /\ cerr = NoErr /\ hooks = <<>> /\ toks = <<>> /\ more = FALSE
    /\ NoCategories /\ NoGoroutines
    /\ enc = NoStream /\ dec = NoStream

\* err = Unmarshal(b, &w)
CallUnmarshalInto ==
    /\ phase = "marshaled" /\ cerr = NoErr
    /\ \E r \in {Unmarshal(out, PtrV(dst0))} :
         /\ dst' = r.v.v
         /\ cerr' = r.err
         /\ hooks' = r.hooks
    /\ src' = out
    /\ phase' = "unmarshaled"
    /\ UNCHANGED <<fed, scan, out0, out, out2, val, dst0, enc, dec, toks, more, catVars, goVars>>

\* if err == nil { b2, err = Marshal(w) }
CallMarshalAgain ==
    /\ phase = "unmarshaled" /\ cerr = NoErr
    /\ \E mk \in MapKeysOrders(dst) :
         \E r \in {Marshal(dst, mk)} :
             /\ out2' = r.buf
             /\ cerr' = r.err
    /\ phase' = "remarshaled"
    /\ UNCHANGED <<src, fed, scan, out0, out, val, dst, dst0, hooks, enc, dec, toks, more, catVars, goVars>>

NextRound == CallMarshal \/ CallUnmarshalInto \/ CallMarshalAgain

SpecRound == InitRound /\ [][NextRound]_vars

(***************************************************************************)
(* Driver of the decoder: a caller holds an input, the encoding of a       *)
(* document with up to MaxCut bytes cut off its end, and a destination     *)
(* with prior contents, and calls Unmarshal(src, &dst).                    *)
(***************************************************************************)
MaxKeys == 2
MaxCut == 2

\* type unmarshaler struct { T bool }, with
\* func (u *unmarshaler) UnmarshalOscript(b []byte) error
H == StructT("unmarshaler", <<SF(B(<<"T">>), NoTag, BoolT)>>, TRUE)
\* type T3 struct { X int8; Y string }
T3 == StructT("T3", <<SF(B(<<"X">>), NoTag, IntT(8)), SF(B(<<"Y">>), NoTag, StringT)>>, FALSE)
\* type T4 struct { X H; Y int8 }
T4 == StructT("T4", <<SF(B(<<"X">>), NoTag, H), SF(B(<<"Y">>), NoTag, IntT(8))>>, FALSE)

Seven == IntV(64, 7)
HV == StructV(H, <<BoolV(FALSE)>>)

\* the documents: literals, arrays, and objects of up to MaxKeys members
DocKeys == { B(<<"1">>), B(<<"1", "x">>), B(<<"2">>), B(<<"X">>), B(<<"Y">>) }
DocMembers == { IfaceV(Seven), IfaceV(IntV(64, 300)), IfaceV(StringV(B(<<"a">>))) }
DocValues ==
    { NilIface, IfaceV(Seven), IfaceV(StringV(B(<<"a">>))), IfaceV(BoolV(TRUE)),
      SliceV(IfaceT, <<NilIface>>),
      SliceV(IfaceT, <<IfaceV(Seven), IfaceV(IntV(64, 300)), IfaceV(Seven)>>),
      SliceV(IfaceT, <<IfaceV(SliceV(IfaceT, <<>>)),
                       IfaceV(MapV(StringT, IfaceT, B(<<"a">>) :> IfaceV(Seven)))>>) }
    \cup {MapV(StringT, IfaceT, m) : m \in MapsUpTo(DocKeys, DocMembers, MaxKeys)}

\* the destinations a single value is decoded into, with their prior contents
Dests ==
    { BoolV(TRUE), Seven, IntV(8, 7), StringV(B(<<"a">>)), TimeV(2019, 12, 4, 11, 47, 16),
      StructV(T3, <<IntV(8, 7), StringV(B(<<"a">>))>>),
      SliceV(IntT(8), <<IntV(8, 7)>>), NilSlice(IntT(8)),
      MapV(IntT(8), IntT(8), 5 :> IntV(8, 5)), NilMap(IntT(8), IntT(8)),
      MapV(StringT, IntT(8), <<>>),
      PtrV(Seven), NilPtr(IntT(64)), PtrV(PtrV(Seven)), PtrV(NilPtr(IntT(64))),
      NilPtr(PtrT(IntT(64))), PtrV(PtrV(PtrV(Seven))),
      NilIface, IfaceV(Seven), IfaceV(PtrV(Seven)), IfaceV(NilPtr(IntT(64))),
      IfaceV(PtrV(PtrV(Seven))), IfaceV(PtrV(NilPtr(IntT(64)))),
      IfaceV(NilPtr(PtrT(IntT(64)))),
      HV, PtrV(HV), NilPtr(H), SliceV(H, <<HV>>), MapV(StringT, H, <<>>),
      StructV(T4, <<HV, IntV(8, 7)>>) }

\* every destination, also as the only element of an array
AllDests == Dests \cup {ArrayV(x.t, <<x>>) : x \in Dests}

\* data without its last n bytes
CutOff(data, n) == Slice(data, 0, Len(data) - n)

InitDecode ==
    /\ phase = "input"
    /\ val \in DocValues
    /\ \E mk \in MapKeysOrders(val) :
         \E b \in {Marshal(val, mk).buf} :
             \E n \in 0..MaxCut : n < Len(b) /\ src = CutOff(b, n)
    /\ dst0 \in AllDests
    /\ dst = dst0
    /\ fed = 0 /\ scan = reset(ZeroScanner)
    /\ out0 = <<>> /\ out = <<>> /\ out2 = <<>> /\ cerr = NoErr /\ hooks = <<>> /\ toks = <<>> /\ more = FALSE
    /\ NoCategories /\ NoGoroutines
    /\ enc = NoStream /\ dec = NoStream

\* err := Unmarshal(src, &dst)
CallUnmarshal ==
    /\ phase = "input"
    /\ \E r \in {Unmarshal(src, PtrV(dst0))} :
         /\ dst' = r.v.v
         /\ cerr' = r.err
         /\ hooks' = r.hooks
    /\ phase' = "decoded"
    /\ UNCHANGED <<src, fed, scan, out0, out, out2, val, dst0, enc, dec, toks, more, catVars, goVars>>

NextDecode == CallUnmarshal

SpecDecode == InitDecode /\ [][NextDecode]_vars

(***************************************************************************)
(* Driver of the decoder into interface{}: a caller holds a written        *)
(* document, a literal of every kind, alone or inside arrays and objects,  *)
(* and calls Unmarshal(src, &w) with var w interface{}.  val is the value  *)
(* the document stands for.                                                *)
(***************************************************************************)
\* a document: its text s and its value v
Doc(s, v) == [s |-> s, v |-> v]

Literals ==
    { Doc(B(<<"?">>), NilIface),
      Doc(B(<<"t", "r", "u", "e">>), IfaceV(BoolV(TRUE))),
      Doc(B(<<"f", "a", "l", "s", "e">>), IfaceV(BoolV(FALSE))),
      Doc(B(<<"7">>), IfaceV(IntV(64, 7))),
      Doc(B(<<"-", "1">>), IfaceV(IntV(64, -1))),
      Doc(B(<<"L", "3", "0", "0">>), IfaceV(IntV(64, 300))),
      Doc(B(<<"G", "1", ".", "5">>), IfaceV(FloatV(B(<<"1", ".", "5">>)))),
      Doc(B(<<"G", "1", "e", "9", "9", "9">>), IfaceV(Inf(64, FALSE))),
      Doc(B(<<"'", "a", "'">>), IfaceV(StringV(B(<<"a">>)))),
      Doc(B(<<"D", "/", "2", "0", "1", "9", "/", "1", "2", "/", "4", ":", "1", "1", ":", "4",
              "7", ":", "1", "6">>), IfaceV(TimeV(2019, 12, 4, 11, 47, 16))),
      Doc(B(<<"E", "1", "0", "2", "4">>), IfaceV(ErrorV(1024))) }

\* the array of the documents a and b, the object with the member k
ArrayOf1(a) == Doc(B(<<"{">>) \o a.s \o B(<<"}">>), IfaceV(SliceV(IfaceT, <<a.v>>)))
ArrayOf2(a, b) ==
    Doc(B(<<"{">>) \o a.s \o B(<<",">>) \o b.s \o B(<<"}">>), IfaceV(SliceV(IfaceT, <<a.v, b.v>>)))
ObjectOf(a) ==
    Doc(B(<<"A", "<", "1", ",", "?", ",", "'", "k", "'", "=">>) \o a.s \o B(<<">">>),
        IfaceV(MapV(StringT, IfaceT, B(<<"k">>) :> a.v)))

IfaceDocs ==
    Literals
    \cup {ArrayOf1(a) : a \in Literals} \cup {ArrayOf2(a, b) : a, b \in Literals}
    \cup {ObjectOf(a) : a \in Literals}
    \cup {ArrayOf1(ObjectOf(ArrayOf1(a))) : a \in Literals}
    \cup {ObjectOf(ObjectOf(a)) : a \in Literals}
    \cup {Doc(B(<<"{", "}">>), IfaceV(SliceV(IfaceT, <<>>))),
          Doc(B(<<"A", "<", "1", ",", "?", ">">>), IfaceV(MapV(StringT, IfaceT, <<>>)))}

InitIface ==
    /\ phase = "input"
    /\ \E doc \in IfaceDocs : src = doc.s /\ val = doc.v
    /\ dst0 \in {NilIface, IfaceV(Seven), IfaceV(StringV(B(<<"a">>)))}
    /\ dst = dst0
    /\ fed = 0 /\ scan = reset(ZeroScanner)
    /\ out0 = <<>> /\ out = <<>> /\ out2 = <<>> /\ cerr = NoErr /\ hooks = <<>> /\ toks = <<>> /\ more = FALSE
    /\ NoCategories /\ NoGoroutines
    /\ enc = NoStream /\ dec = NoStream

NextIface == CallUnmarshal

SpecIface == InitIface /\ [][NextIface]_vars

(***************************************************************************)
(* Driver of the field resolver: a caller holds an object document of up   *)
(* to MaxMembers members and a zero record, makes a Decoder over the       *)
(* document, may call DisallowUnknownFields, and calls Decode(&dst).       *)
(***************************************************************************)
MaxMembers == 2

SDONameKey == B(<<"_", "S", "D", "O", "N", "a", "m", "e">>)

\* type sdoNameTag struct { Name SDOName `oscript:"a.b"`; X int }
TSdo == StructT("sdoNameTag", <<SF(B(<<"N", "a", "m", "e">>), Tag(B(<<"a", ".", "b">>)), sdoType),
                                SF(B(<<"X">>), NoTag, IntT(64))>>, FALSE)
\* type F1 struct { Xy int; XY int }
F1 == StructT("F1", <<SF(B(<<"X", "y">>), NoTag, IntT(64)),
                      SF(B(<<"X", "Y">>), NoTag, IntT(64))>>, FALSE)
\* type F2 struct { XY int; Xy int }
F2 == StructT("F2", <<SF(B(<<"X", "Y">>), NoTag, IntT(64)),
                      SF(B(<<"X", "y">>), NoTag, IntT(64))>>, FALSE)


\* records with embedded records, after BugA..BugZ of the encoder's tests:
\* type BugA struct { X int }, BugC struct { X int }, BugF struct { X int },
\* BugD struct { Y int `oscript:"X"` }, BugE struct { Z int `oscript:"X"` },
\* BugG struct { BugF }, BugH struct { BugF }
BugA == StructT("BugA", <<SF(B(<<"X">>), NoTag, IntT(64))>>, FALSE)
BugC == StructT("BugC", <<SF(B(<<"X">>), NoTag, IntT(64))>>, FALSE)
BugF == StructT("BugF", <<SF(B(<<"X">>), NoTag, IntT(64))>>, FALSE)
BugD == StructT("BugD", <<SF(B(<<"Y">>), Tag(B(<<"X">>)), IntT(64))>>, FALSE)
BugE == StructT("BugE", <<SF(B(<<"Z">>), Tag(B(<<"X">>)), IntT(64))>>, FALSE)
BugG == StructT("BugG", <<Embedded(B(<<"B", "u", "g", "F">>), NoTag, BugF)>>, FALSE)
BugH == StructT("BugH", <<Embedded(B(<<"B", "u", "g", "F">>), NoTag, BugF)>>, FALSE)
\* type BugY struct { BugA; BugD }: the tagged field of BugD dominates
BugY == StructT("BugY", <<Embedded(B(<<"B", "u", "g", "A">>), NoTag, BugA),
                          Embedded(B(<<"B", "u", "g", "D">>), NoTag, BugD)>>, FALSE)
\* type BugX struct { N int `oscript:"k"`; BugA; BugC; BugG }: two untagged X
\* at the least depth and one deeper
BugX == StructT("BugX", <<SF(B(<<"N">>), Tag(B(<<"k">>)), IntT(64)),
                          Embedded(B(<<"B", "u", "g", "A">>), NoTag, BugA),
                          Embedded(B(<<"B", "u", "g", "C">>), NoTag, BugC),
                          Embedded(B(<<"B", "u", "g", "G">>), NoTag, BugG)>>, FALSE)
\* type BugT struct { BugD; BugE }: two tagged X at the least depth
BugT == StructT("BugT", <<Embedded(B(<<"B", "u", "g", "D">>), NoTag, BugD),
                          Embedded(B(<<"B", "u", "g", "E">>), NoTag, BugE)>>, FALSE)
\* type BugS struct { X int; BugD }: an untagged X above a tagged one
BugS == StructT("BugS", <<SF(B(<<"X">>), NoTag, IntT(64)),
                          Embedded(B(<<"B", "u", "g", "D">>), NoTag, BugD)>>, FALSE)
\* type BugL struct { BugG }: the only X is two records down
BugL == StructT("BugL", <<Embedded(B(<<"B", "u", "g", "G">>), NoTag, BugG)>>, FALSE)
\* type BugW struct { BugG; BugH }: the same record embedded twice at one depth
BugW == StructT("BugW", <<Embedded(B(<<"B", "u", "g", "G">>), NoTag, BugG),
                          Embedded(B(<<"B", "u", "g", "H">>), NoTag, BugH)>>, FALSE)
EmbeddingTypes == { BugY, BugX, BugT, BugS, BugL, BugW }

\* a record of type t whose integer fields hold different numbers
RECURSIVE Filled(_, _)
Filled(t, seed) ==
    IF t.k = "struct" THEN StructV(t, [i \in DOMAIN t.fields |-> Filled(t.fields[i].typ, 5 * seed + i)])
    ELSE IntV(64, 20 + seed)

RecordTypes == { TSdo, F1, F2 }

\* the keys and the values of the members
MemberKeys == { SDONameKey, B(<<"X">>), B(<<"X", "y">>), B(<<"X", "Y">>), B(<<"x", "y">>),
                B(<<"k">>) }
MemberValues == { B(<<"7">>), B(<<"1", "2">>), B(<<"?">>), B(<<"'", "a", ".", "b", "'">>),
                  B(<<"'", "a", ".", "k", "'">>), B(<<"{", "7", "}">>) }
Members == [k : MemberKeys, v : MemberValues]

\* the object document with the members ms, in their order
RECURSIVE MemberBytes(_)
MemberBytes(ms) ==
    IF ms = <<>> THEN <<>>
    ELSE B(<<",">>) \o string(Head(ms).k) \o B(<<"=">>) \o Head(ms).v \o MemberBytes(Tail(ms))
ObjectDoc(ms) == B(<<"A", "<", "1", ",", "?">>) \o MemberBytes(ms) \o B(<<">">>)

\* bytes.NewReader(b)
BytesReader(b) == [data |-> b, chunk |-> 512, fail |-> EOF, reads |-> 0]

InitFields ==
    /\ phase = "record"
    /\ val \in SeqsUpTo(Members, MaxMembers)
    /\ src = ObjectDoc(val)
    /\ dst0 \in {Zero(t) : t \in RecordTypes} \cup {Filled(t, 0) : t \in EmbeddingTypes}
    /\ dst = dst0
    /\ dec = NewDecoder(BytesReader(src))
    /\ enc = NoStream
    /\ fed = 0 /\ scan = reset(ZeroScanner)
    /\ out0 = <<>> /\ out = <<>> /\ out2 = <<>> /\ cerr = NoErr /\ hooks = <<>> /\ toks = <<>> /\ more = FALSE
    /\ NoCategories /\ NoGoroutines

\* dec.DisallowUnknownFields()
CallDisallowUnknownFields ==
    /\ phase = "record"
    /\ ~dec.d.disallowUnknownFields
    /\ dec' = DisallowUnknownFields(dec)
    /\ UNCHANGED <<phase, src, fed, scan, out0, out, out2, cerr, val, dst, dst0, hooks, enc, toks, more, catVars, goVars>>

\* err := dec.Decode(&dst)
CallDecodeRecord ==
    /\ phase = "record"
    /\ \E r \in {Decode(dec, PtrV(dst0))} :
         /\ dec' = r.dec
         /\ dst' = r.v.v
         /\ cerr' = r.err
         /\ hooks' = r.hooks
    /\ phase' = "record-decoded"
    /\ UNCHANGED <<src, fed, scan, out0, out, out2, val, dst0, enc, toks, more, catVars, goVars>>

\* if err == nil { b, err = Marshal(dst) }
CallMarshalRecord ==
    /\ phase = "record-decoded" /\ cerr = NoErr
    /\ \E mk \in MapKeysOrders(dst) :
         \E r \in {Marshal(dst, mk)} :
             /\ out' = r.buf
             /\ cerr' = r.err
    /\ phase' = "record-marshaled"
    /\ UNCHANGED <<src, fed, scan, out0, out2, val, dst, dst0, hooks, enc, dec, toks, more, catVars, goVars>>

NextFields == CallDisallowUnknownFields \/ CallDecodeRecord \/ CallMarshalRecord

SpecFields == InitFields /\ [][NextFields]_vars

(***************************************************************************)
(* Driver of the Encoder: a caller makes an Encoder over a writer that     *)
(* takes a limited number of bytes and calls Encode up to MaxCalls times,  *)
(* with values Marshal supports and with one it does not.  fed counts the  *)
(* calls, val is the value of the last call and cerr the error it          *)
(* returned; the sink is enc.w.data.                                       *)
(***************************************************************************)
MaxCalls == 3
MaxRoom == 4

\* the error that a hook of the caller returns
ErrHook == Err("hook failed")

\* the values: a channel has no encoding, +Inf neither; a Marshaler that
\* returns an error, one that returns a text that is no Oscript and one that
\* returns 'v'; an array whose second element has no encoding
EncodeValues ==
    { Seven, StringV(B(<<"a">>)), BoolV(TRUE), ChanV, NilSlice(IntT(64)),
      Inf(64, FALSE), FloatV(B(<<"1", ".", "5", "0">>)),
      MarshalerV(<<>>, ErrHook), MarshalerV(B(<<"{">>), NoErr),
      MarshalerV(B(<<"'", "v", "'">>), NoErr),
      SliceV(IfaceT, <<IfaceV(Seven), IfaceV(ChanV)>>) }

InitEncode ==
    /\ phase = "stream"
    /\ \E room \in 0..MaxRoom : enc = NewEncoder([data |-> <<>>, room |-> room])
    /\ dec = NoStream
    /\ val = NilV /\ cerr = NoErr /\ fed = 0
    /\ src = <<>> /\ scan = reset(ZeroScanner)
    /\ out0 = <<>> /\ out = <<>> /\ out2 = <<>> /\ hooks = <<>> /\ toks = <<>> /\ more = FALSE
    /\ NoCategories /\ NoGoroutines
    /\ dst = [k |-> "none"] /\ dst0 = [k |-> "none"]

\* enc.EnableEncodeNL()
CallEnableEncodeNL ==
    /\ phase = "stream" /\ fed = 0
    /\ ~enc.enabledEncodeNL
    /\ enc' = EnableEncodeNL(enc)
    /\ UNCHANGED <<phase, src, fed, scan, out0, out, out2, cerr, val, dst, dst0, hooks, dec, toks, more, catVars, goVars>>

\* err = enc.Encode(v)
CallEncode ==
    /\ phase = "stream" /\ fed < MaxCalls
    /\ \E v \in EncodeValues :
         \E mk \in MapKeysOrders(v) :
             \E r \in {Encode(enc, v, mk)} :
                 /\ enc' = r.enc
                 /\ cerr' = r.err
                 /\ val' = v
    /\ fed' = fed + 1
    /\ UNCHANGED <<phase, src, scan, out0, out, out2, dst, dst0, hooks, dec, toks, more, catVars, goVars>>

NextEncode == CallEnableEncodeNL \/ CallEncode

SpecEncode == InitEncode /\ [][NextEncode]_vars

(***************************************************************************)
(* Driver of the Decoder over a stream: the source holds up to MaxDocs     *)
(* documents separated by a space, valid ones, one that is no value and    *)
(* one that is cut short, and a space may follow the last one; the reader  *)
(* gives one or two bytes at a time or all at once and ends in io.EOF or   *)
(* in an error of its own.  The caller calls Decode up to MaxCalls times,  *)
(* into an int8 or into an interface{}.  val is the list of documents, fed *)
(* counts the calls, dst0 is the destination of the last call, dst what it *)
(* holds after it and cerr the error.                                      *)
(***************************************************************************)
MaxDocs == 3

\* the error of an io.Reader that fails
ErrRead == Err("read failed")

StreamDocs == { B(<<"7">>), B(<<"'", "a", "'">>), B(<<"{", "7", "}">>),
                B(<<"A", "<", "1", ",", "?", ">">>), B(<<"}">>), B(<<"{", "7">>) }
StreamDests == { Zero(IntT(8)), NilIface }

\* the documents ds written to the stream, a space between two of them
RECURSIVE StreamBytes(_)
StreamBytes(ds) ==
    IF ds = <<>> THEN <<>>
    ELSE IF Len(ds) = 1 THEN Head(ds)
    ELSE Head(ds) \o B(<<" ">>) \o StreamBytes(Tail(ds))

InitStream ==
    /\ phase = "decoding"
    /\ val \in SeqsUpTo(StreamDocs, MaxDocs)
    /\ \E trailer \in {<<>>, B(<<" ">>)} : src = StreamBytes(val) \o trailer
    /\ \E chunk \in {1, 2, 512}, fail \in {EOF, ErrRead} :
         dec = NewDecoder([data |-> src, chunk |-> chunk, fail |-> fail, reads |-> 0])
    /\ enc = NoStream
    /\ dst0 = [k |-> "none"] /\ dst = [k |-> "none"]
    /\ fed = 0 /\ scan = reset(ZeroScanner)
    /\ out0 = <<>> /\ out = <<>> /\ out2 = <<>> /\ cerr = NoErr /\ hooks = <<>> /\ toks = <<>> /\ more = FALSE
    /\ NoCategories /\ NoGoroutines

\* err = dec.Decode(&dst)
CallDecode ==
    /\ phase = "decoding" /\ fed < MaxCalls
    /\ \E d0 \in StreamDests :
         \E r \in {Decode(dec, PtrV(d0))} :
             /\ dec' = r.dec
             /\ dst' = r.v.v
             /\ dst0' = d0
             /\ cerr' = r.err
             /\ hooks' = r.hooks
    /\ fed' = fed + 1
    /\ UNCHANGED <<phase, src, scan, out0, out, out2, val, enc, toks, more, catVars, goVars>>

NextStream == CallDecode

SpecStream == InitStream /\ [][NextStream]_vars

(***************************************************************************)
(* Driver of the Token API: the source holds one document, read a byte at  *)
(* a time or all at once, and the caller calls Token, Decode(&x) with x an *)
(* interface{} and More in any order until the reader has reported the end *)
(* of input.  A document is written from its parts, with the Tokens the    *)
(* format gives it: the Delim of every opening and closing, the keys and   *)
(* the scalars, each with its role.  Some documents have white space       *)
(* between the parts; others are not Oscript and have no Tokens.  val is   *)
(* the document; toks holds what the Token calls returned and, for every   *)
(* Decode that stored a value, that value marked as decoded; phase is the  *)
(* call made last, cerr its error, dst the value of the last Decode.       *)
(***************************************************************************)
\* an expected Token and its role: "open", "close", "key" or "value"
Expect(tok, role) == [tok |-> tok, role |-> role]
\* a document: its text s, its Tokens and whether it is Oscript
TokDoc(s, ts) == [s |-> s, toks |-> ts, ok |-> TRUE]
NoTokDoc(s) == [s |-> s, toks |-> <<>>, ok |-> FALSE]

\* a scalar
TokLit(d) == TokDoc(d.s, <<Expect(d.v, "value")>>)
TokLiterals ==
    { TokLit(Doc(B(<<"?">>), NilIface)),
      TokLit(Doc(B(<<"7">>), IfaceV(IntV(64, 7)))),
      TokLit(Doc(B(<<"'", "a", "'">>), IfaceV(StringV(B(<<"a">>))))) }
TokSeven == TokLit(Doc(B(<<"7">>), IfaceV(IntV(64, 7))))
TokUndefined == TokLit(Doc(B(<<"?">>), NilIface))
TokString == TokLit(Doc(B(<<"'", "a", "'">>), IfaceV(StringV(B(<<"a">>)))))

\* the elements ds of an array, sp between them and the commas
RECURSIVE TokElems(_, _)
TokElems(ds, sp) ==
    IF ds = <<>> THEN TokDoc(<<>>, <<>>)
    ELSE LET rest == TokElems(Tail(ds), sp)
         IN IF Len(ds) = 1 THEN Head(ds)
            ELSE TokDoc(Head(ds).s \o sp \o B(<<",">>) \o sp \o rest.s,
                        Head(ds).toks \o rest.toks)
\* the array of the documents ds
TokArraySp(ds, sp) ==
    LET es == TokElems(ds, sp)
    IN TokDoc(sp \o B(<<"{">>) \o sp \o es.s \o sp \o B(<<"}">>) \o sp,
              <<Expect(Delim("{"), "open")>> \o es.toks \o <<Expect(Delim("}"), "close")>>)
TokArray(ds) == TokArraySp(ds, <<>>)

\* the members ms of an object, each [k, d], sp around , and =
RECURSIVE TokMembers(_, _)
TokMembers(ms, sp) ==
    IF ms = <<>> THEN TokDoc(<<>>, <<>>)
    ELSE LET rest == TokMembers(Tail(ms), sp)
         IN TokDoc(sp \o B(<<",">>) \o sp \o string(Head(ms).k) \o sp \o B(<<"=">>) \o sp
                       \o Head(ms).d.s \o rest.s,
                   <<Expect(StringV(Head(ms).k), "key")>> \o Head(ms).d.toks \o rest.toks)
\* the object with the header A<1,h and the members ms; no space stands
\* between the header and the comma of the first member
TokObjectSp(h, ms, sp) ==
    LET es == TokMembers(ms, sp)
    IN TokDoc(B(<<"A", "<", "1", ",", h>>)
                  \o Slice(es.s, IF ms = <<>> THEN 0 ELSE Len(sp), Len(es.s))
                  \o sp \o B(<<">">>),
              <<Expect(Delim("A"), "open")>> \o es.toks \o <<Expect(Delim(">"), "close")>>)
TokObject(ms) == TokObjectSp("?", ms, <<>>)
TokMember(k, d) == [k |-> B(<<k>>), d |-> d]

TokEmptyArray == TokArray(<<>>)
TokEmptyObject == TokObject(<<>>)
TokObjA == TokObject(<<TokMember("a", TokSeven)>>)

TokDocs ==
    TokLiterals
    \cup { TokEmptyArray, TokEmptyObject, TokObjA,
           TokArray(<<TokSeven>>),
           TokArray(<<TokSeven, TokString>>),
           TokArray(<<TokEmptyArray, TokSeven>>),
           TokArray(<<TokArray(<<TokSeven>>)>>),
           TokArray(<<TokObjA, TokUndefined>>),
           TokArray(<<TokEmptyObject>>),
           TokArraySp(<<TokSeven, TokString>>, B(<<" ">>)),
           TokObject(<<TokMember("a", TokSeven), TokMember("b", TokString)>>),
           TokObject(<<TokMember("a", TokArray(<<TokSeven>>))>>),
           TokObject(<<TokMember("a", TokEmptyArray)>>),
           TokObject(<<TokMember("a", TokObjA)>>),
           TokObject(<<TokMember("a", TokEmptyObject)>>),
           TokObject(<<TokMember("o", TokArray(<<TokObjA>>))>>),
           TokObjectSp("N", <<TokMember("a", TokSeven)>>, <<>>),
           TokObjectSp("?", <<TokMember("a", TokSeven)>>, B(<<" ">>)) }

\* texts that are not Oscript: closings that close nothing or the other kind
\* of composite, a comma before the closing, a missing comma
NoTokDocs ==
    { NoTokDoc(B(<<"}">>)), NoTokDoc(B(<<">">>)),
      NoTokDoc(B(<<"{", ">">>)), NoTokDoc(B(<<"{", "7", ">">>)),
      NoTokDoc(B(<<"{", "7", "}", "}">>)), NoTokDoc(B(<<"{", "7", ",", "}">>)),
      NoTokDoc(B(<<"{", "7", " ", "7", "}">>)),
      NoTokDoc(B(<<"{", "{", "7", ">", "}">>)),
      NoTokDoc(B(<<"A", "<", "1", ",", "?", "}">>)),
      NoTokDoc(B(<<"A", "<", "1", ",", "?", ",", "'", "a", "'", "=", "7", "}">>)),
      NoTokDoc(B(<<"A", "<", "1", ",", "?", ",", "'", "a", "'", "=", "{", ">">>)),
      NoTokDoc(B(<<"A", ">">>)) }

InitToken ==
    /\ phase = "tokens"
    /\ val \in TokDocs \cup NoTokDocs
    /\ src = val.s
    /\ \E chunk \in {1, 512} :
         dec = NewDecoder([data |-> src, chunk |-> chunk, fail |-> EOF, reads |-> 0])
    /\ enc = NoStream
    /\ dst0 = NilIface /\ dst = NilIface
    /\ fed = 0 /\ scan = reset(ZeroScanner)
    /\ out0 = <<>> /\ out = <<>> /\ out2 = <<>> /\ cerr = NoErr /\ hooks = <<>>
    /\ toks = <<>> /\ more = FALSE
    /\ NoCategories /\ NoGoroutines

\* the reader has returned io.EOF: the caller makes no further call
EndReported == dec.r.reads > (Len(src) + dec.r.chunk - 1) \div dec.r.chunk

\* a value a Decode between the Token calls stored
Decoded(v) == [k |-> "decoded", v |-> v]

\* tok, err = dec.Token()
CallToken ==
    /\ phase \in {"tokens", "token", "decode", "more"} /\ ~EndReported
    /\ \E r \in {Token(dec)} :
         /\ dec' = r.dec
         /\ cerr' = r.err
         /\ toks' = IF r.err = NoErr THEN Append(toks, r.tok) ELSE toks
    /\ phase' = "token"
    /\ UNCHANGED <<src, fed, scan, out0, out, out2, val, dst, dst0, hooks, enc, more, catVars, goVars>>

\* var x interface{}; err = dec.Decode(&x)
CallDecodeBetween ==
    /\ phase \in {"tokens", "token", "decode", "more"} /\ ~EndReported
    /\ \E r \in {Decode(dec, PtrV(NilIface))} :
         /\ dec' = r.dec
         /\ cerr' = r.err
         /\ dst' = r.v.v
         /\ toks' = IF r.err = NoErr THEN Append(toks, Decoded(r.v.v)) ELSE toks
    /\ phase' = "decode"
    /\ UNCHANGED <<src, fed, scan, out0, out, out2, val, dst0, hooks, enc, more, catVars, goVars>>

\* ok = dec.More()
CallMore ==
    /\ phase \in {"tokens", "token", "decode", "more"} /\ ~EndReported
    /\ \E r \in {More(dec)} :
         /\ dec' = r.dec
         /\ more' = r.more
    /\ phase' = "more"
    /\ UNCHANGED <<src, fed, scan, out0, out, out2, cerr, val, dst, dst0, hooks, enc, toks, catVars, goVars>>

NextToken == CallToken \/ CallDecodeBetween \/ CallMore

SpecToken == InitToken /\ [][NextToken]_vars

\* the caller calls Token only
NextTokens == CallToken

SpecTokens == InitToken /\ [][NextTokens]_vars

(***************************************************************************)
(* Driver of the scanner and the decoder on written text: a caller holds a *)
(* text, an object header, an integer literal or a D-literal, well formed  *)
(* or with a byte changed, and calls Valid(src) or Unmarshal(src, &dst)    *)
(* with dst an interface{} or a time.Time.                                 *)
(***************************************************************************)
WithByte(s, i, c) == [s EXCEPT ![i] = c]

\* the texts s[:n], 0 < n < len(s)
Cuts(s) == {Slice(s, 0, n) : n \in 1..(Len(s) - 1)}

HeaderLen == 7

HeaderBases ==
    { B(<<"A", "<", "1", ",", "?", ">">>),
      B(<<"A", "<", "1", ",", "N", ">">>),
      B(<<"A", "<", "1", ",", "?", ",", "'", "a", "'", "=", "7", ">">>),
      B(<<"A", "<", "1", ",", "N", ",", " ", "'", "a", "'", "=", "7", ">">>) }

HeaderBytes ==
    {Ord[c] : c \in {"A", "<", "1", ",", "?", "N", ">", "'", " ", "2", "x", "="}}

\* s with one of its first HeaderLen bytes changed
HeaderChanged(s) ==
    {WithByte(s, i, c) : i \in {j \in 1..HeaderLen : j <= Len(s)}, c \in HeaderBytes}

HeaderTexts ==
    LET changed == UNION {HeaderChanged(s) : s \in HeaderBases}
        inArray == {B(<<"{">>) \o s \o B(<<"}">>) :
                      s \in HeaderChanged(B(<<"A", "<", "1", ",", "?", ">">>))}
    IN HeaderBases \cup changed \cup inArray \cup UNION {Cuts(s) : s \in HeaderBases}

MaxRun == 3

\* an optional L, an optional -, and up to MaxRun digits
IntTexts ==
    {l \o m \o ds : l \in {<<>>, B(<<"L">>)}, m \in {<<>>, B(<<"-">>)},
                    ds \in SeqsUpTo({Ord["0"], Ord["7"]}, MaxRun) \cup {B(<<"x">>)}}

MaxYearDigits == 5
MaxFieldDigits == 3

\* D/Y/M/D:H:M:S with the digits f[1], ..., f[6]
DateOf(f) ==
    B(<<"D", "/">>) \o f[1] \o B(<<"/">>) \o f[2] \o B(<<"/">>) \o f[3] \o B(<<":">>)
        \o f[4] \o B(<<":">>) \o f[5] \o B(<<":">>) \o f[6]

DateDigits(n) == Slice(B(<<"2", "0", "1", "9", "1", "2">>), 0, n)

\* a date whose year has y digits and whose field g has k digits
DateLens(y, g, k) ==
    DateOf([i \in 1..6 |-> IF i = 1 THEN DateDigits(y)
                           ELSE IF i = g THEN Slice(B(<<"1", "2", "3", "4">>), 0, k)
                           ELSE B(<<"3">>)])

DateBase == DateLens(4, 2, 1)

DateTexts ==
    {DateLens(y, g, k) : y \in 0..MaxYearDigits, g \in 2..6, k \in 0..MaxFieldDigits}
    \cup {WithByte(DateBase, i, c) : i \in 2..Len(DateBase),
                                     c \in {Ord["/"], Ord[":"], Ord["7"]}}
    \cup Cuts(DateBase)
    \cup {DateBase \o B(<<"/">>), DateBase \o B(<<":">>),
          B(<<"D", ":", ":">>), B(<<"D", "7">>)}

InitValid ==
    /\ phase = "input"
    /\ src \in HeaderTexts \cup IntTexts \cup DateTexts
    /\ dst0 \in {NilIface, Zero(TimeT)}
    /\ dst = dst0
    /\ val = NilV
    /\ fed = 0 /\ scan = reset(ZeroScanner)
    /\ out0 = <<>> /\ out = <<>> /\ out2 = <<>> /\ cerr = NoErr /\ hooks = <<>> /\ toks = <<>> /\ more = FALSE
    /\ NoCategories /\ NoGoroutines
    /\ enc = NoStream /\ dec = NoStream

\* ok := Valid(src)
CallValid ==
    /\ phase = "input"
    /\ cerr' = checkValid(src, ZeroScanner).err
    /\ phase' = "checked"
    /\ UNCHANGED <<src, fed, scan, out0, out, out2, val, dst, dst0, hooks, enc, dec, toks, more, catVars, goVars>>

NextValid == CallValid \/ CallUnmarshal

SpecValid == InitValid /\ [][NextValid]_vars

(***************************************************************************)
(* Categories (package ot).  A *Category, the array behind a Data slice    *)
(* and the array behind a []interface{} are addresses in the heap: the     *)
(* index of the struct or array in heap.cats, heap.datas, heap.lists; 0 is *)
(* the nil pointer or nil slice.  Slices of the model cover their whole    *)
(* array.                                                                  *)
(***************************************************************************)
NilType == 0
StringType == 1
IntType == 2
BoolType == 3
TimeType == 4

EmptyHeap == [cats |-> <<>>, datas |-> <<>>, lists |-> <<>>]

\* Value{Description, Key, Value, Type}; Value is the address of a list
ValueOf(desc, list, type) ==
    [Description |-> desc, Key |-> "", Value |-> list, Type |-> type]

\* Category{DisplayName, Key, Type, Data}; Key is a sequence of bytes, Data
\* the address of an array
CategoryOf(name, key, type, data) ==
    [DisplayName |-> name, Key |-> key, Type |-> type, Data |-> data]

\* NameValueType{Name, Value, Type}
NameValueType(name, list, type) == [Name |-> name, Value |-> list, Type |-> type]

\* []interface{}{...}, make([]Value, n) and &Category{...}: the heap with
\* the new array or struct, whose address is the length of its table
NewList(h, items) == [h EXCEPT !.lists = Append(@, items)]
NewData(h, values) == [h EXCEPT !.datas = Append(@, values)]
NewCat(h, c) == [h EXCEPT !.cats = Append(@, c)]

errCategory == Err("not found category")

\* fmt.Errorf("invalid type attribute \"%s\" \"%s\"", name, type)
ErrInvalidType(name, type) ==
    [kind |-> "invalid type attribute", msg |-> name, c |-> type, off |-> 0]

\* (c *Category).Copy(): [heap, ptr]
Copy(h, c) ==
    LET cat == h.cats[c]
        copied(hv, values) == [heap |-> NewCat(hv, CategoryOf(cat.DisplayName, cat.Key,
                                                               cat.Type, values)),
                               ptr |-> Len(hv.cats) + 1]
    IN IF cat.Data # 0
       THEN copied(NewData(h, h.datas[cat.Data]), Len(h.datas) + 1)
       ELSE copied(h, 0)

\* the index i of the first c.Data[i] with Description = name, 0 for none
\* (indices of the model are those of the code plus one)
RECURSIVE IndexDescription(_, _, _)
IndexDescription(data, name, i) ==
    IF i > Len(data) THEN 0
    ELSE IF data[i].Description = name THEN i
    ELSE IndexDescription(data, name, i + 1)

\* append(v[:j], v[j+1:]...) inside the array arr of v, len(v) = n:
\* the elements after j move one place down, the last place keeps its value
RemoveAt(arr, n, j) ==
    [k \in 1..Len(arr) |-> IF j + 1 <= k /\ k <= n - 1 THEN arr[k + 1] ELSE arr[k]]

\* Category.Set, the loop over range v at index j.  The range runs over the
\* slice as it was at the call (Len(arr) elements) and reads the array at
\* every iteration, while v, of length n, is shortened in the same array.
\* [arr, n, indAttr, err]
RECURSIVE setRange(_, _, _, _, _)
setRange(data, arr, n, j, indAttr) ==
    IF j >= Len(arr) THEN [arr |-> arr, n |-> n, indAttr |-> indAttr, err |-> NoErr]
    ELSE LET vv == arr[j + 1]
             i == IndexDescription(data, vv.Name, 1)
         IN IF i # 0
            THEN IF vv.Type # NilType /\ data[i].Type # vv.Type
                 THEN [arr |-> arr, n |-> n, indAttr |-> indAttr,
                       err |-> ErrInvalidType(vv.Name, vv.Type)]
                 ELSE setRange(data, arr, n, j + 1, Append(indAttr, i))
            ELSE IF j = n - 1 THEN setRange(data, arr, j, j + 1, indAttr)
            \* v[j+1:] of a slice of length n < j+1: slice bounds out of range
            ELSE IF j + 1 > n THEN [arr |-> arr, n |-> n, indAttr |-> indAttr, err |-> Panic]
            ELSE setRange(data, RemoveAt(arr, n, j), n - 1, j + 1, indAttr)

\* Category.Set, the loop over indAttr: c.Data[attr].Value = v[i].Value
RECURSIVE setValues(_, _, _, _, _)
setValues(data, arr, n, indAttr, i) ==
    IF i > Len(indAttr) THEN [data |-> data, err |-> NoErr]
    ELSE IF i > n THEN [data |-> data, err |-> Panic]
    ELSE setValues([data EXCEPT ![indAttr[i]].Value = arr[i].Value], arr, n, indAttr, i + 1)

\* Set once the first loop has returned r
setRanged(h, d, r) ==
    LET stored(s) == [heap |-> [h EXCEPT !.datas[d] = s.data], err |-> s.err]
    IN IF r.err # NoErr THEN [heap |-> h, err |-> r.err]
       ELSE IF r.indAttr = <<>> THEN [heap |-> h, err |-> NoErr]
       ELSE stored(setValues(h.datas[d], r.arr, r.n, r.indAttr, 1))

\* (c *Category).Set(v ...NameValueType): [heap, err]
Set(h, c, v) ==
    IF c = 0 THEN [heap |-> h, err |-> errCategory]
    ELSE IF h.cats[c].Data = 0
    THEN setRanged(h, 0, setRange(<<>>, v, Len(v), 0, <<>>))
    ELSE setRanged(h, h.cats[c].Data, setRange(h.datas[h.cats[c].Data], v, Len(v), 0, <<>>))

\* id, _ = strconv.ParseInt(s, 10, 64) and version, _ = strconv.Atoi(s): the
\* number of s, 0 after a syntax error; after a range error it is the
\* greatest or the least number of the type, which the model does not hold
parsedOrZero(s, r, digits) ==
    IF r.ok THEN r.n
    ELSE IF digits # <<>> /\ \A i \in 1..Len(digits) : IsDigit(digits[i]) THEN OutsideModel(s)
    ELSE 0
parsed(s, r) ==
    parsedOrZero(s, r, IF s # <<>> /\ s[1] \in {45, 43} THEN Tail(s) ELSE s)

\* the parts of strings.Split(key, "."), which are two
idVersion(key, dot) ==
    IF dot < 0 \/ IndexByte(Slice(key, dot + 1, Len(key)), 46) >= 0
    THEN [id |-> 0, version |-> 0]
    ELSE [id |-> parsed(Slice(key, 0, dot), ParseInt(Slice(key, 0, dot))),
          version |-> parsed(Slice(key, dot + 1, Len(key)),
                             Atoi(Slice(key, dot + 1, Len(key))))]
\* (c Category).IDVersion(): [id, version]; '.' is 46
IDVersion(c) == idVersion(c.Key, IndexByte(c.Key, 46))

\* the slice at the address d: nil at 0
DataAt(h, d) == IF d = 0 THEN <<>> ELSE h.datas[d]

\* Upgrade, the loops over c.Data, from old[o] on, and over new.Data, whose
\* copy is values: [values, err]
RECURSIVE upgradeValues(_, _, _)
upgradeValues(old, values, o) ==
    IF o > Len(old) THEN [values |-> values, err |-> NoErr]
    ELSE LET i == IndexDescription(values, old[o].Description, 1)
         IN IF i = 0 THEN upgradeValues(old, values, o + 1)
            ELSE IF old[o].Type # values[i].Type
            THEN [values |-> values,
                  err |-> ErrInvalidType(values[i].Description, values[i].Type)]
            ELSE upgradeValues(old, [values EXCEPT ![i].Value = old[o].Value], o + 1)

\* Upgrade once the loops have returned r: *c = new with the array of values.
\* After an error nothing holds the array, and the heap is left without it
upgraded(h, c, new, r) ==
    IF r.err # NoErr THEN [heap |-> h, err |-> r.err]
    ELSE [heap |-> [NewData(h, r.values)
                       EXCEPT !.cats[c] = [new EXCEPT !.Data = Len(h.datas) + 1]],
          err |-> NoErr]

\* Upgrade with the ids and versions of c and of new
upgradeTo(h, c, new, old, new1) ==
    IF old.id # new1.id \/ old.version >= new1.version THEN [heap |-> h, err |-> NoErr]
    ELSE upgraded(h, c, new, upgradeValues(DataAt(h, h.cats[c].Data), DataAt(h, new.Data), 1))

\* (c *Category).Upgrade(new Category): [heap, err]
Upgrade(h, c, new) ==
    IF c = 0 THEN [heap |-> h, err |-> errCategory]
    ELSE upgradeTo(h, c, new, IDVersion(h.cats[c]), IDVersion(new))

(***************************************************************************)
(* Driver of Category.Set and Category.Upgrade: a caller holds a category  *)
(* with the string attribute "1" and the integer attribute "2", or a nil   *)
(* *Category, and calls c.Set(v...) with up to MaxAttrs attributes, each   *)
(* named after an attribute of the category or not, with a list of its own *)
(* as Value, or c.Upgrade(new) with a category of up to MaxNewAttrs such   *)
(* attributes and one of UpgradeKeys.                                      *)
(***************************************************************************)
MaxAttrs == 3
MaxNewAttrs == 2

\* the keys "1.2", "1.1", "1.0", "2.2", "1", "1.2.3", "1.x", ".2" and "+1.02"
UpgradeKeys ==
    {B(<<"1", ".", "2">>), B(<<"1", ".", "1">>), B(<<"1", ".", "0">>), B(<<"2", ".", "2">>),
     B(<<"1">>), B(<<"1", ".", "2", ".", "3">>), B(<<"1", ".", "x">>), B(<<".", "2">>),
     B(<<"+", "1", ".", "0", "2">>)}

SetNames == {"1", "2", "x", "y"}
SetTypes == {NilType, StringType, IntType}

\* the heap of the caller: the lists of the attributes of the category
\* (addresses 1 and 2, holding nil, written 0), the lists of the attributes
\* supplied (address 2 + i, holding i, for the i-th), the Data array and the
\* Category
SetHeap ==
    [cats |-> <<CategoryOf("c", B(<<"1", ".", "1">>), "", 1)>>,
     datas |-> << <<ValueOf("1", 1, StringType), ValueOf("2", 2, IntType)>> >>,
     lists |-> << <<0>>, <<0>> >> \o [i \in 1..MaxAttrs |-> <<i>>]]

InitSet ==
    /\ phase = "category"
    /\ heap = SetHeap
    /\ val \in {0, 1}
    /\ cache = <<>> /\ attrs = <<>> /\ NoGoroutines
    /\ src = <<>> /\ dst0 = NilV /\ dst = NilV
    /\ fed = 0 /\ scan = reset(ZeroScanner)
    /\ out0 = <<>> /\ out = <<>> /\ out2 = <<>> /\ cerr = NoErr /\ hooks = <<>>
    /\ toks = <<>> /\ more = FALSE
    /\ enc = NoStream /\ dec = NoStream

\* err := c.Set(v...), c the pointer val
CallSet ==
    /\ phase = "category"
    /\ \E names \in SeqsUpTo(SetNames, MaxAttrs) :
         \E types \in [1..Len(names) -> SetTypes] :
           \E v \in {[i \in 1..Len(names) |-> NameValueType(names[i], 2 + i, types[i])]} :
             \E r \in {Set(heap, val, v)} :
               /\ attrs' = v
               /\ heap' = r.heap
               /\ cerr' = r.err
    /\ phase' = "set"
    /\ UNCHANGED <<src, fed, scan, out0, out, out2, val, dst, dst0, hooks, enc, dec, toks,
                   more, cache, goVars>>

\* err := c.Upgrade(new), c the pointer val and new a category the caller has
\* built, with its own Data array and the list 2 + i in its i-th attribute
CallUpgrade ==
    /\ phase = "category"
    /\ \E key \in UpgradeKeys :
         \E names \in SeqsUpTo(SetNames, MaxNewAttrs) :
           \E types \in [1..Len(names) -> SetTypes] :
             \E h \in {NewData(heap, [i \in 1..Len(names) |->
                                         ValueOf(names[i], 2 + i, types[i])])} :
               \E new \in {CategoryOf("new", key, "type", Len(h.datas))} :
                 \E r \in {Upgrade(h, val, new)} :
                   /\ attrs' = <<new>>
                   /\ heap' = r.heap
                   /\ cerr' = r.err
    /\ phase' = "upgrade"
    /\ UNCHANGED <<src, fed, scan, out0, out, out2, val, dst, dst0, hooks, enc, dec, toks,
                   more, cache, goVars>>

NextSet == CallSet \/ CallUpgrade

SpecSet == InitSet /\ [][NextSet]_vars

(***************************************************************************)
(* The cache of categories (cacheCategory): a sync.Map from display name   *)
(* to *Category, here a function from names to addresses.                 *)
(***************************************************************************)
\* sync.Map.Store(k, v) and sync.Map.Load(k)
MapStore(m, k, v) == [x \in DOMAIN m \cup {k} |-> IF x = k THEN v ELSE m[x]]
MapLoad(m, k) == IF k \in DOMAIN m THEN [v |-> m[k], ok |-> TRUE] ELSE [v |-> 0, ok |-> FALSE]

\* (c *cacheCategory).Store(cat): [heap, cache, err]
Store(h, m, cat) ==
    LET copied(r) == [heap |-> r.heap, cache |-> MapStore(m, h.cats[cat].DisplayName, r.ptr),
                      err |-> NoErr]
    IN IF cat = 0 THEN [heap |-> h, cache |-> m, err |-> Panic]
       ELSE copied(Copy(h, cat))

\* (c *cacheCategory).Find(name): [heap, ptr]
Find(h, m, name) ==
    LET loaded(l) == IF ~l.ok THEN [heap |-> h, ptr |-> 0] ELSE Copy(h, l.v)
    IN loaded(MapLoad(m, name))

(***************************************************************************)
(* Driver of the cache: a caller holds the category c (address 1) with one *)
(* attribute and the category the last Find returned (dst), stores one of  *)
(* them, changes them in all the ways Go allows, and calls Find.  val      *)
(* holds, for every name stored, the category as it was when stored.       *)
(***************************************************************************)
MaxCacheCalls == 4

CacheNames == {"Name", "Other"}

CacheHeap ==
    [cats |-> <<CategoryOf("Name", B(<<"1", ".", "1">>), "", 1)>>,
     datas |-> << <<ValueOf("1", 1, IntType)>> >>,
     lists |-> << <<7>> >>]

\* the category at p with its Data and the lists of its attributes, as
\* reflect.DeepEqual compares it
Deep(h, p) ==
    IF p = 0 THEN [nil |-> TRUE]
    ELSE [nil |-> FALSE,
          cat |-> [h.cats[p] EXCEPT !.Data = 0],
          Data |-> IF h.cats[p].Data = 0 THEN <<>>
                   ELSE [i \in DOMAIN h.datas[h.cats[p].Data] |->
                            LET a == h.datas[h.cats[p].Data][i]
                            IN [attr |-> [a EXCEPT !.Value = 0],
                                Value |-> IF a.Value = 0 THEN <<>> ELSE h.lists[a.Value]]]]

\* the same without the elements of the lists
DeepButLists(h, p) ==
    IF p = 0 THEN [nil |-> TRUE]
    ELSE [nil |-> FALSE,
          cat |-> [h.cats[p] EXCEPT !.Data = 0],
          Data |-> IF h.cats[p].Data = 0 THEN <<>>
                   ELSE [i \in DOMAIN h.datas[h.cats[p].Data] |->
                            LET a == h.datas[h.cats[p].Data][i]
                            IN [attr |-> [a EXCEPT !.Value = 0],
                                Value |-> IF a.Value = 0 THEN 0 ELSE Len(h.lists[a.Value])]]]

InitCache ==
    /\ phase = "cache"
    /\ heap = CacheHeap
    /\ cache = <<>> /\ attrs = <<>> /\ NoGoroutines
    /\ val = <<>>
    /\ src = "" /\ dst0 = 0 /\ dst = 0
    /\ fed = 0 /\ scan = reset(ZeroScanner)
    /\ out0 = <<>> /\ out = <<>> /\ out2 = <<>> /\ cerr = NoErr /\ hooks = <<>>
    /\ toks = <<>> /\ more = FALSE
    /\ enc = NoStream /\ dec = NoStream

\* the categories the caller holds
Held == {1} \cup ({dst} \ {0})

CacheUnchanged ==
    UNCHANGED <<scan, out0, out, out2, cerr, hooks, enc, dec, toks, more, attrs, goVars>>

\* CacheCategory.Store(p)
CallStore ==
    /\ fed < MaxCacheCalls
    /\ \E p \in Held :
         \E r \in {Store(heap, cache, p)} :
           /\ heap' = r.heap
           /\ cache' = r.cache
           /\ val' = MapStore(val, heap.cats[p].DisplayName,
                              [deep |-> Deep(heap, p), shallow |-> DeepButLists(heap, p)])
           /\ dst0' = p
    /\ phase' = "stored"
    /\ fed' = fed + 1
    /\ UNCHANGED <<src, dst>>
    /\ CacheUnchanged

\* dst = CacheCategory.Find(name)
CallFind ==
    /\ fed < MaxCacheCalls
    /\ \E name \in CacheNames :
         \E r \in {Find(heap, cache, name)} :
           /\ heap' = r.heap
           /\ dst' = r.ptr
           /\ src' = name
    /\ phase' = "found"
    /\ fed' = fed + 1
    /\ UNCHANGED <<cache, val, dst0>>
    /\ CacheUnchanged

ChangeUnchanged ==
    /\ phase' = "changed"
    /\ fed' = fed + 1
    /\ UNCHANGED <<cache, val, src, dst, dst0>>
    /\ CacheUnchanged

\* p.DisplayName = "Other"
ChangeName ==
    /\ fed < MaxCacheCalls
    /\ \E p \in Held : heap' = [heap EXCEPT !.cats[p].DisplayName = "Other"]
    /\ ChangeUnchanged

\* p.Data = make([]Value, 1)
ChangeData ==
    /\ fed < MaxCacheCalls
    /\ \E p \in Held :
         heap' = [NewData(heap, <<ValueOf("", 0, NilType)>>)
                     EXCEPT !.cats[p].Data = Len(heap.datas) + 1]
    /\ ChangeUnchanged

\* p.Data[0].Key = "Change"
ChangeAttr ==
    /\ fed < MaxCacheCalls
    /\ \E p \in Held :
         /\ heap.cats[p].Data # 0
         /\ heap' = [heap EXCEPT !.datas[heap.cats[p].Data][1].Key = "Change"]
    /\ ChangeUnchanged

\* p.Data[0].Value = []interface{}{9}
ChangeList ==
    /\ fed < MaxCacheCalls
    /\ \E p \in Held :
         /\ heap.cats[p].Data # 0
         /\ heap' = [NewList(heap, <<9>>)
                        EXCEPT !.datas[heap.cats[p].Data][1].Value = Len(heap.lists) + 1]
    /\ ChangeUnchanged

\* p.Data[0].Value[0] = 8
ChangeElem ==
    /\ fed < MaxCacheCalls
    /\ \E p \in Held :
         /\ heap.cats[p].Data # 0
         /\ heap.datas[heap.cats[p].Data][1].Value # 0
         /\ heap' = [heap EXCEPT !.lists[heap.datas[heap.cats[p].Data][1].Value][1] = 8]
    /\ ChangeUnchanged

NextCache ==
    \/ CallStore \/ CallFind
    \/ ChangeName \/ ChangeData \/ ChangeAttr \/ ChangeList \/ ChangeElem

SpecCache == InitCache /\ [][NextCache]_vars

(***************************************************************************)
(* Driver of the scanner, byte by byte: a caller holds a text, a value     *)
(* with white space or other bytes around it, a value cut short, a text    *)
(* that is not Oscript, or any short text over a few bytes, and steps the  *)
(* scanner over it as checkValid and the decoder do (scan.bytes++, then    *)
(* scan.step(scan, c)); it may call scan.eof() where it stops, and may     *)
(* reset the scanner once and step over the text again.  out holds the     *)
(* codes the calls returned; cerr the error the scanner held when a step   *)
(* first returned scanError.                                               *)
(***************************************************************************)
MaxStepLen == 4
\* the calls of scan.eof() in a row
MaxEOF == 2

StepBytes == {Ord[c] : c \in {"{", "}", ",", "'", " ", "1"}}

\* values, without white space around them
StepValues ==
    {d.s : d \in {t \in TokDocs : ~isSpace(t.s[1])}}
    \cup { B(<<"-", "7">>), B(<<"L", "7", "1">>), B(<<"t", "r", "u", "e">>),
           B(<<"E", "7">>),
           TokArray(<<TokObject(<<TokMember("a", TokArray(<<TokSeven>>))>>), TokUndefined>>).s }

\* bytes before the value and after it; no tail continues a value
StepLeads == {<<>>, B(<<" ">>)}
StepTails == {<<>>, B(<<" ">>), B(<<" ", "7">>), B(<<"}">>), B(<<",">>), B(<<"\n", " ">>)}

\* the value is closed by its last byte: every proper prefix is incomplete
Closed(v) == v[Len(v)] \in {Ord["'"], Ord["}"], Ord[">"], Ord["e"]}

\* a text s: whether the place of its value is known, whether the value is
\* complete, the index of the last byte of the value, and whether only
\* white space follows it
StepDocs ==
    {[s |-> l \o v \o t, known |-> TRUE, complete |-> TRUE, last |-> Len(l) + Len(v),
      spaceAfter |-> \A i \in 1..Len(t) : isSpace(t[i])] :
        l \in StepLeads, v \in StepValues, t \in StepTails}
    \cup UNION {{[s |-> l \o Slice(v, 0, n), known |-> TRUE, complete |-> FALSE, last |-> 0,
                  spaceAfter |-> FALSE] : l \in StepLeads, n \in 0..(Len(v) - 1)} :
                v \in {w \in StepValues : Closed(w)}}
    \cup {[s |-> d.s, known |-> FALSE, complete |-> FALSE, last |-> 0, spaceAfter |-> FALSE] :
            d \in NoTokDocs}
    \cup {[s |-> s, known |-> FALSE, complete |-> FALSE, last |-> 0, spaceAfter |-> FALSE] :
            s \in SeqsUpTo(StepBytes, MaxStepLen)}

InitStep ==
    /\ phase = "step"
    /\ val \in StepDocs
    /\ src = val.s
    /\ fed = 0 /\ scan = reset(ZeroScanner)
    /\ out0 = <<>> /\ out = <<>> /\ out2 = <<>> /\ cerr = NoErr /\ hooks = <<>>
    /\ dst0 = NilV /\ dst = NilV
    /\ toks = <<>> /\ more = FALSE
    /\ NoCategories /\ NoGoroutines
    /\ enc = NoStream /\ dec = NoStream

StepUnchanged ==
    UNCHANGED <<src, out0, out2, val, dst, dst0, hooks, enc, dec, toks, more, catVars, goVars>>

\* the error held when a step first returned scanError
FirstError(op, s) == IF cerr = NoErr /\ op = scanError THEN s.err ELSE cerr

\* scan.bytes++; op := scan.step(&scan, src[fed])
Step ==
    /\ phase \in {"step", "again"}
    /\ fed < Len(src)
    /\ \E r \in {step([scan EXCEPT !.bytes = @ + 1], src[fed + 1])} :
         /\ scan' = r.s
         /\ out' = Append(out, r.op)
         /\ cerr' = FirstError(r.op, r.s)
    /\ fed' = fed + 1
    /\ UNCHANGED phase
    /\ StepUnchanged

\* op := scan.eof()
CallEOF ==
    /\ phase \in {"step", "again", "eof", "eof again"}
    /\ Len(out) - fed < MaxEOF
    /\ \E r \in {eof(scan)} :
         /\ scan' = r.s
         /\ out' = Append(out, r.op)
    /\ phase' = IF phase \in {"step", "eof"} THEN "eof" ELSE "eof again"
    /\ UNCHANGED <<fed, cerr>>
    /\ StepUnchanged

\* scan.reset()
CallReset ==
    /\ phase \in {"step", "eof"}
    /\ fed > 0
    /\ scan' = reset(scan)
    /\ out' = <<>>
    /\ cerr' = NoErr
    /\ fed' = 0
    /\ phase' = "again"
    /\ StepUnchanged

NextStep == Step \/ CallEOF \/ CallReset

SpecStep == InitStep /\ [][NextStep]_vars

(***************************************************************************)
(* Claims about Compact.                                                   *)
(***************************************************************************)
\* the six-byte escape of the separator at index i
EscapeOf(data, i) ==
    B(<<"\\", "u", "2", "0", "2">>) \o <<IF data[i + 2] = 168 THEN Ord["8"] ELSE Ord["9"]>>

\* What the claim says Compact appends: whitespace outside string literals
\* removed, separators inside string literals escaped, the rest kept.
RECURSIVE RefCompactFrom(_, _)
RefCompactFrom(data, i) ==
    IF i > Len(data) THEN <<>>
    ELSE IF LexAfter(data, i - 1).mode = "out"
    THEN (IF isSpace(data[i]) THEN <<>> ELSE <<data[i]>>) \o RefCompactFrom(data, i + 1)
    ELSE IF SepAt(data, i)
    THEN EscapeOf(data, i) \o RefCompactFrom(data, i + 3)
    ELSE <<data[i]>> \o RefCompactFrom(data, i + 1)

\* a separator lies in data outside (inside) every string literal
SepOutside(data) ==
    \E i \in 1..Len(data) : SepAt(data, i) /\ LexAfter(data, i - 1).mode = "out"
SepInside(data) ==
    \E i \in 1..Len(data) : SepAt(data, i) /\ LexAfter(data, i - 1).mode = "in"
SpaceOutside(data) ==
    \E i \in 1..Len(data) : isSpace(data[i]) /\ LexAfter(data, i - 1).mode = "out"
SpaceInside(data) ==
    \E i \in 1..Len(data) : isSpace(data[i]) /\ LexAfter(data, i - 1).mode = "in"

\* sub occurs in data as a contiguous run
Contains(data, sub) ==
    \E i \in 0..(Len(data) - Len(sub)) : Slice(data, i, i + Len(sub)) = sub

\* C4: for every valid input Compact succeeds, what it appends is valid
\* again, and compacting that once more appends the same bytes.
C4_CompactIdempotent ==
    /\ (phase = "compacted" /\ Valid(src)) => (cerr = NoErr /\ Valid(Appended))
    /\ (phase = "recompacted" /\ Valid(src)) => (cerr = NoErr /\ out2 = Appended)

C4_Witness ==
    /\ phase = "recompacted" /\ Valid(src)
    /\ SepInside(src) /\ SpaceOutside(src)
    /\ out2 = Appended /\ Appended # src

\* C5: for every valid input the appended bytes are the input without the
\* whitespace outside string literals, with the separators inside string
\* literals escaped and every other byte kept in order.
C5_CompactOutput ==
    (phase = "compacted" /\ Valid(src)) => Appended = RefCompactFrom(src, 1)

C5_Witness ==
    /\ phase = "compacted" /\ Valid(src)
    /\ SepInside(src) /\ SpaceOutside(src) /\ SpaceInside(src)
    /\ Appended = RefCompactFrom(src, 1)

\* C6 as stated: a separator outside every string literal is rewritten to
\* its escape and Compact returns no error.
C6_Original ==
    (phase = "compacted" /\ SepOutside(src)) =>
        /\ cerr = NoErr
        /\ \/ Contains(Appended, B(<<"\\", "u", "2", "0", "2", "8">>))
           \/ Contains(Appended, B(<<"\\", "u", "2", "0", "2", "9">>))

\* C6 amended: a separator outside every string literal makes Compact
\* return a SyntaxError and leave the buffer as it was before the call.
C6_SeparatorOutsideRejected ==
    (phase = "compacted" /\ SepOutside(src)) => (cerr.kind = "syntax" /\ out = out0)

C6_Witness ==
    /\ phase = "compacted" /\ SepOutside(src)
    /\ out0 # <<>> /\ out = out0 /\ cerr.kind = "syntax"
    /\ Len(src) > 3

(***************************************************************************)
(* Claims about Marshal, checked under SpecMarshal.                        *)
(***************************************************************************)
\* v is built only from booleans, integers, strings, sequences, string- or
\* integer-keyed mappings and records without hooks
RECURSIVE Plain(_)
Plain(v) ==
    CASE v.t.k \in {"bool", "int", "string"} -> v.t \in {BoolT, StringT, IntT(8), IntT(64)}
      [] v.t.k \in {"slice", "array"} -> \A i \in DOMAIN v.e : Plain(v.e[i])
      [] v.t.k = "map" ->
            v.t.key.k \in {"string", "int"} /\ \A k \in DOMAIN v.m : Plain(v.m[k])
      [] v.t.k = "struct" -> ~v.t.um /\ \A i \in DOMAIN v.f : Plain(v.f[i])
      [] OTHER -> FALSE

\* every field of the record type is exported, has no "-" and no omitempty
\* option, and no two fields share their encoded name
AllFieldsEncoded(t) ==
    LET name(sf) == IF sf.tag.name # <<>> THEN sf.tag.name ELSE sf.goName
    IN /\ \A i \in DOMAIN t.fields :
             /\ ~isUnexported(t.fields[i])
             /\ ~t.fields[i].tag.dash /\ ~t.fields[i].tag.omitempty
       /\ \A i, j \in DOMAIN t.fields : i # j => name(t.fields[i]) # name(t.fields[j])

\* every string and string key of v is valid UTF-8 and every record of v has
\* all its fields encoded
RECURSIVE Faithful(_)
Faithful(v) ==
    CASE v.t.k = "string" -> ValidUTF8(v.s)
      [] v.t.k \in {"slice", "array"} -> \A i \in DOMAIN v.e : Faithful(v.e[i])
      [] v.t.k = "map" ->
            /\ v.t.key.k = "string" => \A k \in DOMAIN v.m : ValidUTF8(k)
            /\ \A k \in DOMAIN v.m : Faithful(v.m[k])
      [] v.t.k = "struct" -> AllFieldsEncoded(v.t) /\ \A i \in DOMAIN v.f : Faithful(v.f[i])
      [] OTHER -> TRUE

\* C1 as stated: every value built only from booleans, integers, strings,
\* sequences, string- or integer-keyed mappings and records marshals without
\* error and unmarshals into a zero value of its type as an equal value.
C1_Original ==
    /\ (phase = "marshaled" /\ Plain(val)) => cerr = NoErr
    /\ (phase = "unmarshaled" /\ Plain(val)) => (cerr = NoErr /\ dst = val)

\* C1 amended: the round trip Unmarshal(Marshal(v), &w) returns no error and
\* leaves w equal to v for every such value whose strings and string keys are
\* valid UTF-8 and whose records have every field encoded (exported, no "-",
\* no omitempty, no clash of names).
C1_RoundTrip ==
    /\ (phase = "marshaled" /\ Plain(val) /\ Faithful(val)) => cerr = NoErr
    /\ (phase = "unmarshaled" /\ Plain(val) /\ Faithful(val)) =>
           (cerr = NoErr /\ dst = val)

\* a slice of records holding a string that needs an escape came back equal
C1_Witness ==
    /\ phase = "unmarshaled" /\ Plain(val) /\ Faithful(val)
    /\ val.t = SliceT(T2) /\ Len(val.e) = 2
    /\ val.e[1].f[2].s = <<10>> /\ val.e[2].f[2].s = B(<<"'">>)
    /\ dst = val /\ dst # dst0 /\ cerr = NoErr

\* the v of the supported domain: everything but channels, maps with
\* unsupported keys and the nil interface value
Supported(v) == v # NilV /\ v.t.k # "chan" /\ (v.t.k = "map" => v.t.key.k \in {"string", "int"})

\* C2 as stated: whenever Marshal(v) returns no error for a supported v, its
\* output is valid Oscript.
C2_MarshalValid == (phase = "marshaled" /\ Supported(val) /\ cerr = NoErr) => Valid(out)

\* C3 as stated: Compact applied to Marshal(v) returns no error and appends
\* exactly the bytes of Marshal(v).
C3_MarshalCompactFixedPoint ==
    (phase = "marshal-compacted" /\ Supported(val)) => (cerr = NoErr /\ out2 = out)

(***************************************************************************)
(* Claims about Unmarshal, checked under SpecDecode.                       *)
(***************************************************************************)
Whole == \E mk \in MapKeysOrders(val) : src = Marshal(val, mk).buf   \* nothing was cut off

\* the destination ? is decoded into, before and after the call: dst itself
\* for the input ?, its only element for the input {?}
UndefCase ==
    /\ phase = "decoded"
    /\ \/ src = B(<<"?">>)
       \/ src = B(<<"{", "?", "}">>) /\ dst0.t.k = "array"
    /\ (IF src = B(<<"?">>) THEN dst0.t ELSE dst0.t.elem) # H
UndefBefore == IF src = B(<<"?">>) THEN dst0 ELSE dst0.e[1]
UndefAfter == IF src = B(<<"?">>) THEN dst ELSE dst.e[1]

\* a chain of pointers with its first pointer that is nil or points to a
\* non-pointer set to nil
RECURSIVE ClearChain(_)
ClearChain(p) ==
    IF p.nil \/ p.v.t.k # "ptr" THEN NilPtr(p.t.elem) ELSE [p EXCEPT !.v = ClearChain(p.v)]

Cleared(x) ==
    CASE x.t.k \in {"map", "slice"} -> Zero(x.t)
      [] x.t.k = "ptr" -> ClearChain(x)
      [] x.t.k = "iface" ->
            IF ~x.nil /\ x.v.t.k = "ptr" /\ ~x.v.nil /\ x.v.t.elem.k = "ptr"
            THEN IfaceV(ClearChain(x.v)) ELSE NilIface
      [] OTHER -> x

\* C7 as stated: decoding ? into an interface, pointer, map or slice sets the
\* destination to nil whatever it held; into any other destination it returns
\* no error and leaves the prior value unchanged.
C7_Original ==
    UndefCase =>
        /\ cerr = NoErr
        /\ UndefAfter = IF UndefBefore.t.k \in {"iface", "ptr", "map", "slice"}
                        THEN Zero(UndefBefore.t) ELSE UndefBefore

\* C7 amended: decoding ? into a destination without a hook returns no error;
\* a map or slice becomes nil; in a pointer chain the first pointer that is nil
\* or does not point to another pointer becomes nil and the pointers before it
\* stay; an interface becomes nil unless it holds a non-nil pointer to a
\* pointer, which it keeps and which is cleared as a pointer chain; every
\* other destination keeps its prior value.
C7_UndefinedClears == UndefCase => (cerr = NoErr /\ UndefAfter = Cleared(UndefBefore))

\* ? reached an array element holding an interface with a pointer to a pointer
C7_Witness ==
    /\ UndefCase /\ src = B(<<"{", "?", "}">>)
    /\ dst0.e[1] = IfaceV(PtrV(PtrV(Seven)))
    /\ dst.e[1] = IfaceV(PtrV(NilPtr(IntT(64))))
    /\ cerr = NoErr

\* the members of the object document that fit the destination
FitsInt8(x) == ~x.nil /\ x.v.t.k = "int" /\ -128 <= x.v.n /\ x.v.n <= 127
KeyFitsInt8(k) == ParseInt(k).ok /\ -128 <= ParseInt(k).n /\ ParseInt(k).n <= 127
MapMemberFits(k) == KeyFitsInt8(k) /\ FitsInt8(val.m[k])
FieldFits(k) ==
    IF k = B(<<"X">>) THEN FitsInt8(val.m[k]) ELSE ~val.m[k].nil /\ val.m[k].v.t.k = "string"
FieldKeys == DOMAIN val.m \cap {B(<<"X">>), B(<<"Y">>)}

\* C8 as stated, for an object decoded into a map[int8]int8 or into a T3: the
\* call returns a type error exactly when a member does not fit, for a record
\* the error names the first field that does not fit, and every member that
\* fits is stored, also after a member that does not.
C8_MismatchKeepsPeers ==
    (phase = "decoded" /\ Whole /\ val.t.k = "map") =>
        /\ dst0.t = MapT(IntT(8), IntT(8)) =>
              /\ (cerr = NoErr) <=> \A k \in DOMAIN val.m : MapMemberFits(k)
              /\ cerr # NoErr => cerr.kind = "UnmarshalTypeError"
              /\ \A k \in DOMAIN val.m : MapMemberFits(k) =>
                     /\ ParseInt(k).n \in DOMAIN dst.m
                     /\ dst.m[ParseInt(k).n] = IntV(8, val.m[k].v.n)
        /\ dst0.t = T3 =>
              /\ LET bad == {k \in FieldKeys : ~FieldFits(k)}
                 IN IF bad = {} THEN cerr = NoErr
                    ELSE /\ cerr.kind = "UnmarshalTypeError"
                         /\ cerr.field = IF B(<<"X">>) \in bad THEN B(<<"X">>) ELSE B(<<"Y">>)
              /\ \A k \in FieldKeys : FieldFits(k) =>
                     dst.f[IF k = B(<<"X">>) THEN 1 ELSE 2] =
                         IF k = B(<<"X">>) THEN IntV(8, val.m[k].v.n) ELSE val.m[k].v

\* C9: for an input that is not valid Oscript Unmarshal returns a SyntaxError,
\* the destination is exactly as before the call and no hook has run.
C9_InvalidInputStoresNothing ==
    (phase = "decoded" /\ ~Valid(src)) =>
        (cerr.kind = "syntax" /\ dst = dst0 /\ hooks = <<>>)

\* an object cut short after members the decoder would have stored
C9_Witness ==
    /\ phase = "decoded" /\ ~Valid(src) /\ ~Whole
    /\ val.t.k = "map" /\ Cardinality(DOMAIN val.m) = MaxKeys
    /\ dst0 = NilMap(IntT(8), IntT(8))
    /\ UnmarshalUnchecked(src, PtrV(dst0)).v.v # dst0
    /\ cerr.kind = "syntax" /\ dst = dst0

\* C10 as stated: every byte slice handed to an UnmarshalOscript hook is by
\* itself valid Oscript, and a hook that is the whole destination receives the
\* whole input.
C10_HookGetsSubDocument ==
    (phase = "decoded" /\ Whole) =>
        /\ \A i \in DOMAIN hooks : Valid(hooks[i])
        /\ dst0.t = H => hooks = <<src>>

(***************************************************************************)
(* Claims about records, checked under SpecFields.                         *)
(***************************************************************************)
\* the members of the document whose key is k, in wire order
MembersOf(k) == SelectSeq(val, LAMBDA m : m.k = k)
\* the value a member names: a string literal without its quotes, any other
\* value as it is written
NamedBy(v) == IF v[1] = Ord["'"] THEN Slice(v, 1, Len(v) - 1) ELSE v

\* the document has one member, with the key _SDOName, and is decoded into
\* the record that declares the SDO tag a.b
SDOCase ==
    /\ phase = "record-decoded" /\ dst0.t = TSdo
    /\ Len(val) = 1 /\ val[1].k = SDONameKey

\* C11 as stated: when the value of the _SDOName key is the declared tag in
\* single quotes no error results, and for every other value the call
\* returns the error unknown SDOName that names the received value.
C11_SDONameChecked ==
    SDOCase =>
        IF val[1].v = B(<<"'", "a", ".", "b", "'">>) THEN cerr = NoErr
        ELSE cerr = UnknownSDOName(NamedBy(val[1].v))

\* letters as capitals, and the names that are equal but for the case of letters
Upper(c) == IF 97 <= c /\ c <= 122 THEN c - 32 ELSE c
SameFolded(a, b) == [i \in DOMAIN a |-> Upper(a[i])] = [i \in DOMAIN b |-> Upper(b[i])]

\* the declared field of the flat record type t a wire key belongs to: the one
\* of that very name, else the first one of that name but for case, else 0
FieldFor(t, key) ==
    LET exact == {i \in DOMAIN t.fields : t.fields[i].goName = key}
        fold == {i \in DOMAIN t.fields : SameFolded(t.fields[i].goName, key)}
    IN IF exact # {} THEN CHOOSE i \in exact : TRUE
       ELSE IF fold # {} THEN CHOOSE i \in fold : \A j \in fold : i <= j
       ELSE 0

\* the record x after the integer members ms were stored one after the other
RECURSIVE StoreMembers(_, _)
StoreMembers(x, ms) ==
    IF ms = <<>> THEN x
    ELSE LET i == FieldFor(x.t, Head(ms).k)
         IN StoreMembers(IF i = 0 THEN x
                         ELSE [x EXCEPT !.f[i] = IntV(64, ParseInt(Head(ms).v).n)],
                         Tail(ms))

\* an object whose members are all integers was decoded into a record whose
\* fields Xy and XY differ only by case
FoldCase ==
    /\ phase = "record-decoded" /\ dst0.t \in {F1, F2}
    /\ \A i \in DOMAIN val : val[i].v \in {B(<<"7">>), B(<<"1", "2">>)}

\* C12: every wire key is stored into the field of that very name if there is
\* one, only otherwise into the first field, in resolver order, whose name
\* equals it under case folding; keys without such a field store nothing.
C12_ExactBeforeFold ==
    FoldCase =>
        /\ dst = StoreMembers(dst0, val)
        /\ ~dec.d.disallowUnknownFields => cerr = NoErr

\* the key XY went into the second field of F1 although the first field, Xy,
\* matches it under folding, and the key xy into the first
C12_Witness ==
    /\ FoldCase /\ dst0.t = F1
    /\ val = << [k |-> B(<<"X", "Y">>), v |-> B(<<"7">>)],
                [k |-> B(<<"x", "y">>), v |-> B(<<"1", "2">>)] >>
    /\ dst.f = <<IntV(64, 12), IntV(64, 7)>>
    /\ cerr = NoErr

\* the members of the document whose key belongs to no field of the record
UnknownMembers == SelectSeq(val, LAMBDA m : FieldFor(dst0.t, m.k) = 0)
\* the members whose key belongs to a field
KnownMembers == SelectSeq(val, LAMBDA m : FieldFor(dst0.t, m.k) # 0)

\* an object was decoded into a record without embedded records, the members that belong to a field are
\* integers for an integer field, and the members that belong to none hold
\* any value
UnknownCase ==
    /\ phase = "record-decoded" /\ dst0.t \in RecordTypes
    /\ \A i \in DOMAIN val :
         /\ val[i].k # SDONameKey
         /\ FieldFor(dst0.t, val[i].k) # 0 => val[i].v \in {B(<<"7">>), B(<<"1", "2">>)}

\* C13: with DisallowUnknownFields the error is unknown field, naming the first
\* key of the document that belongs to no field of the record; without it the
\* members of such keys are skipped and no error is returned; in both modes
\* the members that belong to a field are stored.
C13_UnknownFields ==
    UnknownCase =>
        /\ dst = StoreMembers(dst0, KnownMembers)
        /\ cerr = IF dec.d.disallowUnknownFields /\ UnknownMembers # <<>>
                  THEN UnknownField(UnknownMembers[1].k)
                  ELSE NoErr

\* the strict decoder met the unknown key k, whose value is an array, before
\* the key X: the error names k and X is stored all the same
C13_Witness ==
    /\ UnknownCase /\ dec.d.disallowUnknownFields /\ dst0.t = TSdo
    /\ val = << [k |-> B(<<"k">>), v |-> B(<<"{", "7", "}">>)],
                [k |-> B(<<"X">>), v |-> B(<<"7">>)] >>
    /\ cerr = UnknownField(B(<<"k">>))
    /\ dst.f[2] = IntV(64, 7)

\* the lenient decoder met the same document: no error, X stored
C13_WitnessLenient ==
    /\ UnknownCase /\ ~dec.d.disallowUnknownFields /\ dst0.t = TSdo
    /\ UnknownMembers # <<>> /\ KnownMembers # <<>>
    /\ cerr = NoErr
    /\ dst # dst0

\* the candidate fields of the record type t below the path p: every field
\* that is not an untagged embedded record, with its wire name, whether the
\* name comes from a tag, and its path of field numbers
RECURSIVE Candidates(_, _)
Candidates(t, p) ==
    UNION { IF t.fields[i].anonymous /\ t.fields[i].tag.name = <<>>
            THEN Candidates(t.fields[i].typ, Append(p, i))
            ELSE {[name |-> IF t.fields[i].tag.name # <<>> THEN t.fields[i].tag.name
                            ELSE t.fields[i].goName,
                   tag |-> t.fields[i].tag.name # <<>>,
                   index |-> Append(p, i)]} : i \in DOMAIN t.fields }

\* the candidates of the wire name that the rule of the shortest path selects:
\* one candidate or none
Selected(t, name) ==
    LET all == {c \in Candidates(t, <<>>) : c.name = name}
        short == {c \in all : \A o \in all : Len(c.index) <= Len(o.index)}
        tagged == {c \in short : c.tag}
    IN IF Cardinality(tagged) = 1 THEN tagged
       ELSE IF tagged = {} /\ Cardinality(short) = 1 THEN short
       ELSE {}

\* the selected fields of all names, ordered by their paths
RECURSIVE ByPath(_)
ByPath(S) ==
    IF S = {} THEN <<>>
    ELSE LET c == CHOOSE c \in S : \A o \in S : o = c \/ byIndexLess(c.index, o.index)
         IN <<c>> \o ByPath(S \ {c})
SelectedFields(t) == ByPath(UNION {Selected(t, c.name) : c \in Candidates(t, <<>>)})

\* the record x after the integer members ms were stored into the selected
\* fields of their keys, one after the other
RECURSIVE StoreSelected(_, _)
StoreSelected(x, ms) ==
    IF ms = <<>> THEN x
    ELSE LET sel == Selected(x.t, Head(ms).k)
         IN StoreSelected(IF sel = {} THEN x
                          ELSE setFieldByIndex(x, (CHOOSE c \in sel : TRUE).index,
                                               IntV(64, ParseInt(Head(ms).v).n)),
                          Tail(ms))

\* the members of the object that Marshal writes for the record x
RECURSIVE MembersWritten(_, _)
MembersWritten(x, fs) ==
    IF fs = <<>> THEN <<>>
    ELSE B(<<",">>) \o string(Head(fs).name) \o B(<<"=">>)
         \o FormatInt(fieldByIndex(x, NoFlag, Head(fs).index).v.n) \o MembersWritten(x, Tail(fs))

\* an object was decoded, without DisallowUnknownFields, into a record with
\* embedded records; the members of a selected name are integers
EmbeddedCase ==
    /\ phase \in {"record-decoded", "record-marshaled"}
    /\ dst0.t \in EmbeddingTypes
    /\ ~dec.d.disallowUnknownFields
    /\ \A i \in DOMAIN val :
         Selected(dst0.t, val[i].k) # {} => val[i].v \in {B(<<"7">>), B(<<"1", "2">>)}

\* C14: of the candidate fields of a wire name only those with the shortest
\* embedding path count; the only tagged one of them is selected, or the only
\* one if none is tagged, and otherwise none: the resolver yields exactly the
\* selected fields, Unmarshal stores a key into the selected field of its name
\* and skips a key without one, Marshal writes the selected fields only, and
\* neither returns an error.
C14_ShortestPathDominates ==
    EmbeddedCase =>
        /\ [i \in DOMAIN typeFields(dst0.t) |->
               [name |-> typeFields(dst0.t)[i].name, tag |-> typeFields(dst0.t)[i].tag,
                index |-> typeFields(dst0.t)[i].index]] = SelectedFields(dst0.t)
        /\ dst = StoreSelected(dst0, val)
        /\ cerr = NoErr
        /\ phase = "record-marshaled" =>
               out = B(<<"A", "<", "1", ",", "?">>)
                     \o MembersWritten(dst, SelectedFields(dst0.t)) \o B(<<">">>)

\* BugX has two untagged X at the least depth and one deeper: the key X was
\* skipped without an error, the key k stored, and Marshal wrote k only
C14_Witness ==
    /\ EmbeddedCase /\ phase = "record-marshaled" /\ dst0.t = BugX
    /\ val = << [k |-> B(<<"X">>), v |-> B(<<"7">>)], [k |-> B(<<"k">>), v |-> B(<<"1", "2">>)] >>
    /\ dst = [dst0 EXCEPT !.f[1] = IntV(64, 12)]
    /\ out = B(<<"A", "<", "1", ",", "?", ",", "'", "k", "'", "=", "1", "2", ">">>)
    /\ cerr = NoErr

(***************************************************************************)
(* Claims about Marshal of collections, checked under SpecMarshal.         *)
(***************************************************************************)
\* the string a map key of type kt is written as: a string as it is, an
\* integer in decimal, a text-marshalling key as its MarshalText result
KeyString(kt, key) ==
    IF kt.k = "string" THEN key
    ELSE IF kt = TextT THEN key[1] \o <<58>> \o key[2]
    ELSE FormatInt(key)

\* a comes before b in byte-wise order
BytesBefore(a, b) ==
    \E k \in 1..(Len(a) + 1) :
        /\ k <= Len(b)
        /\ \A i \in 1..(k - 1) : a[i] = b[i]
        /\ k = Len(a) + 1 \/ a[k] < b[k]

\* the orders of the keys of the map m in which the key strings ascend: no
\* key stands behind a key whose string comes after its own
AscendingOrders(m) ==
    {p \in [1..Cardinality(DOMAIN m.m) -> DOMAIN m.m] :
        /\ \A i, j \in DOMAIN p : i < j =>
               /\ p[i] # p[j]
               /\ ~BytesBefore(KeyString(m.t.key, p[j]), KeyString(m.t.key, p[i]))}

\* the members Marshal writes for the keys p of the map m
RECURSIVE EntriesWritten(_, _)
EntriesWritten(m, p) ==
    IF p = <<>> THEN <<>>
    ELSE B(<<",">>) \o string(KeyString(m.t.key, Head(p))) \o B(<<"=">>)
         \o Marshal(m.m[Head(p)], <<>>).buf \o EntriesWritten(m, Tail(p))

\* Marshal was called with a map that is not nil and returned no error
MapCase ==
    /\ phase = "marshaled" /\ val # NilV /\ val.t.k = "map" /\ ~val.nil /\ cerr = NoErr

\* C15: Marshal of a map writes its entries in ascending byte-wise order of
\* the key strings: string keys as they are, integer keys in decimal, text-
\* marshalling keys as their MarshalText result.
C15_MapKeysSorted ==
    MapCase =>
        \E p \in AscendingOrders(val) :
            out = B(<<"A", "<", "1", ",", "?">>) \o EntriesWritten(val, p) \o B(<<">">>)

\* the map[int64]string with the keys 7 and 300: 300 is written first
C15_Witness ==
    /\ MapCase /\ val.t = MapT(IntT(64), StringT) /\ DOMAIN val.m = {7, 300}
    /\ out = B(<<"A", "<", "1", ",", "?", ",", "'", "3", "0", "0", "'", "=">>)
             \o Marshal(val.m[300], <<>>).buf
             \o B(<<",", "'", "7", "'", "=">>) \o Marshal(val.m[7], <<>>).buf \o B(<<">">>)

\* the map[unmarshalerText]int with the keys {x y} and {a }: a: before x:y
C15_WitnessText ==
    /\ MapCase /\ val.t = MapT(TextT, IntT(64))
    /\ DOMAIN val.m = {<<B(<<"x">>), B(<<"y">>)>>, <<B(<<"a">>), <<>>>>}
    /\ SubSeq(out, 1, 12) = B(<<"A", "<", "1", ",", "?", ",", "'", "a", ":", "'", "=">>) \o <<out[12]>>

(***************************************************************************)
(* Claims about the encoder's hooks, checked under SpecAttr.               *)
(***************************************************************************)
\* the bytes the hook of *FileAttr writes for the record f
HookBytes(f) ==
    B(<<"A", "<", "1", ",", "?", ",", "'", "C", "r", "e", "a", "t", "e", "d", "D", "a", "t", "e",
        "'", "=">>) \o timeEncoder(f.f[2], NoFlag).buf
    \o B(<<",", "'", "F", "i", "l", "e", "N", "a", "m", "e", "'", "=">>) \o string(f.f[4].s)
    \o B(<<",", "'", "F", "i", "l", "e", "S", "i", "z", "e", "'", "=">>) \o FormatInt(f.f[5].n)
    \o B(<<",", "'", "M", "o", "d", "i", "f", "i", "e", "d", "D", "a", "t", "e", "'", "=">>)
    \o timeEncoder(f.f[3], NoFlag).buf
    \o B(<<",", "'", "_", "S", "D", "O", "N", "a", "m", "e", "'", "=", "'", "C", "o", "r", "e",
           ".", "F", "i", "l", "e", "A", "t", "t", "s", "'", ">">>)

\* the structural encoding of the record f: its tagged fields in declaration
\* order
DefaultBytes(f) ==
    B(<<"A", "<", "1", ",", "?", ",", "'", "C", "r", "e", "a", "t", "e", "d", "D", "a", "t", "e",
        "'", "=">>) \o timeEncoder(f.f[2], NoFlag).buf
    \o B(<<",", "'", "M", "o", "d", "i", "f", "i", "e", "d", "D", "a", "t", "e", "'", "=">>)
    \o timeEncoder(f.f[3], NoFlag).buf
    \o B(<<",", "'", "N", "a", "m", "e", "'", "=">>) \o string(f.f[4].s)
    \o B(<<",", "'", "D", "a", "t", "a", "F", "o", "r", "k", "S", "i", "z", "e", "'", "=">>)
    \o FormatInt(f.f[5].n) \o B(<<">">>)

\* the encodings of the records fs, each written by the hook, between commas
RECURSIVE HookList(_)
HookList(fs) ==
    IF fs = <<>> THEN <<>>
    ELSE HookBytes(Head(fs)) \o (IF Len(fs) > 1 THEN B(<<",">>) ELSE <<>>) \o HookList(Tail(fs))

\* Marshal was called with a value in which a FileAttr is addressable: the
\* element of a slice, the element of an array behind a pointer, the field of
\* a record behind a pointer
AddressableCase ==
    /\ phase = "marshaled" /\ cerr = NoErr
    /\ val.t \in {SliceT(FileAttr), PtrT(ArrayT(1, FileAttr)), PtrT(Attrs)} /\ ~val.nil

\* Marshal was called with a FileAttr that is not addressable: the value
\* itself, the element of an array value, the field of a record value
PlainCase ==
    /\ phase = "marshaled" /\ cerr = NoErr
    /\ val.t \in {FileAttr, ArrayT(1, FileAttr), Attrs}

\* C16 as stated: when *T has MarshalOscriptBuf and T has not, the encoding of
\* an addressable T value is exactly the bytes its hook writes, and the
\* encoding of a T value that is not addressable is the structural one.
C16_AddressableHook ==
    /\ AddressableCase =>
          out = CASE val.t = SliceT(FileAttr) -> B(<<"{">>) \o HookList(val.e) \o B(<<"}">>)
                  [] val.t = PtrT(ArrayT(1, FileAttr)) ->
                        B(<<"{">>) \o HookBytes(val.v.e[1]) \o B(<<"}">>)
                  [] val.t = PtrT(Attrs) ->
                        B(<<"A", "<", "1", ",", "?", ",", "'", "F", "'", "=">>)
                        \o HookBytes(val.v.f[1]) \o B(<<">">>)
    /\ PlainCase =>
          out = CASE val.t = FileAttr -> DefaultBytes(val)
                  [] val.t = ArrayT(1, FileAttr) ->
                        B(<<"{">>) \o DefaultBytes(val.e[1]) \o B(<<"}">>)
                  [] val.t = Attrs ->
                        B(<<"A", "<", "1", ",", "?", ",", "'", "F", "'", "=">>)
                        \o DefaultBytes(val.f[1]) \o B(<<">">>)

\* what the encoder does: a FileAttr that is not addressable is written
\* structurally, a non-nil *FileAttr by its hook, and an addressable FileAttr
\* as the undefined value
C16_AddressableUndefined ==
    /\ PlainCase =>
          out = CASE val.t = FileAttr -> DefaultBytes(val)
                  [] val.t = ArrayT(1, FileAttr) ->
                        B(<<"{">>) \o DefaultBytes(val.e[1]) \o B(<<"}">>)
                  [] val.t = Attrs ->
                        B(<<"A", "<", "1", ",", "?", ",", "'", "F", "'", "=">>)
                        \o DefaultBytes(val.f[1]) \o B(<<">">>)
    /\ phase = "marshaled" /\ val.t = PtrT(FileAttr) /\ ~val.nil => out = HookBytes(val.v)
    /\ phase = "marshaled" /\ val.t = IfaceT /\ val.v.t = PtrT(FileAttr) /\ ~val.v.nil =>
          out = HookBytes(val.v.v)
    /\ phase = "marshaled" /\ val.t = IfaceT /\ val.v.t = FileAttr => out = DefaultBytes(val.v)
    /\ AddressableCase =>
          out = CASE val.t = SliceT(FileAttr) ->
                        B(<<"{">>) \o (IF Len(val.e) = 0 THEN <<>>
                                       ELSE IF Len(val.e) = 1 THEN B(<<"?">>)
                                       ELSE B(<<"?", ",", "?">>)) \o B(<<"}">>)
                  [] val.t = PtrT(ArrayT(1, FileAttr)) -> B(<<"{", "?", "}">>)
                  [] val.t = PtrT(Attrs) ->
                        B(<<"A", "<", "1", ",", "?", ",", "'", "F", "'", "=", "?", ">">>)

(***************************************************************************)
(* Claims about nil and empty collections, checked under SpecRound.        *)
(***************************************************************************)
EmptyArray == B(<<"{", "}">>)
EmptyObject == B(<<"A", "<", "1", ",", "?", ">">>)
IsByteSlice(t) == t.k = "slice" /\ t.elem = UintT(8)

\* the slices the rule for {} is stated for: all of them, or all but the
\* byte slices
RuledSlice(t, bytesToo) == t.k = "slice" /\ (bytesToo \/ ~IsByteSlice(t))

\* the rules of the nil and the empty collections, for Marshal(val), for
\* Unmarshal of its result into w, and for Marshal(w)
EmptyRules(bytesToo) ==
    /\ phase = "marshaled" =>
          /\ val.t.k \in {"slice", "map"} /\ val.nil => out = <<undefined>>
          /\ RuledSlice(val.t, bytesToo) /\ ~val.nil /\ val.e = <<>> => out = EmptyArray
          /\ val.t.k = "array" /\ val.t.n = 0 => out = EmptyArray
          /\ val.t.k = "map" /\ ~val.nil /\ DOMAIN val.m = {} => out = EmptyObject
    /\ phase = "unmarshaled" /\ src = EmptyArray /\ dst0.t.k = "slice" =>
          cerr = NoErr /\ dst.t = dst0.t /\ ~dst.nil /\ dst.e = <<>>
    /\ phase = "unmarshaled" /\ src = EmptyObject /\ dst0.t.k = "map" /\ dst0.nil =>
          cerr = NoErr /\ dst.t = dst0.t /\ ~dst.nil /\ DOMAIN dst.m = {}
    /\ phase = "remarshaled" /\ src = EmptyArray /\ RuledSlice(dst0.t, bytesToo) =>
          cerr = NoErr /\ out2 = src
    /\ phase = "remarshaled" /\ src = EmptyObject /\ dst0.t.k = "map" /\ dst0.nil =>
          cerr = NoErr /\ out2 = src

\* C17 as stated: Marshal writes ? for a nil slice and a nil map, {} for an
\* empty slice that is not nil and for an array of length zero, A<1,?> for an
\* empty map that is not nil; Unmarshal of {} into a slice leaves an empty
\* slice that is not nil, of A<1,?> into a nil map an empty map that is not
\* nil, and Marshal of these destinations writes {} and A<1,?> again.
C17_Original == EmptyRules(TRUE)

\* C17 amended: the rules hold for the slices whose elements are not bytes;
\* an empty byte slice that is not nil is written as the empty string, so {}
\* decoded into a byte slice comes back from Marshal as two quotes.
C17_EmptyComposites ==
    /\ EmptyRules(FALSE)
    /\ phase = "marshaled" /\ IsByteSlice(val.t) /\ ~val.nil /\ val.e = <<>> =>
          out = B(<<"'", "'">>)
    /\ phase = "remarshaled" /\ src = EmptyArray /\ IsByteSlice(dst0.t) =>
          cerr = NoErr /\ out2 = B(<<"'", "'">>)

\* {} written for an empty []int64, decoded into a []int64 of one element and
\* written again as {}
C17_Witness ==
    /\ phase = "remarshaled" /\ val = SliceV(IntT(64), <<>>) /\ src = EmptyArray
    /\ dst0 = SliceV(IntT(64), <<IntV(64, 5)>>) /\ dst = SliceV(IntT(64), <<>>)
    /\ out2 = EmptyArray

\* A<1,?> written for an empty map, decoded into a nil map and written again
C17_WitnessMap ==
    /\ phase = "remarshaled" /\ val = MapV(StringT, IntT(64), <<>>) /\ src = EmptyObject
    /\ dst0 = NilMap(StringT, IntT(64)) /\ dst = MapV(StringT, IntT(64), <<>>)
    /\ out2 = EmptyObject

(***************************************************************************)
(* Claims about decoding into interface{}, checked under SpecIface.        *)
(***************************************************************************)
\* the document has an E-literal in it
HasErrorLiteral == \E i \in 1..Len(src) : src[i] = Ord["E"]
\* the document has the real G1e999 in it, which no float64 holds
HasHugeReal == \E i \in 1..Len(src) : src[i] = Ord["e"] /\ src[i - 1] = Ord["1"]
\* the first of the two in the document is an E-literal
ErrorLiteralFirst ==
    \E i \in 1..Len(src) :
        /\ src[i] = Ord["E"]
        /\ \A j \in 2..(i - 1) : ~(src[j] = Ord["e"] /\ src[j - 1] = Ord["1"])

\* C18 as stated: Unmarshal of a valid document into an empty interface
\* returns no error and stores the value of the document: nil, a bool, an
\* int64, a float64, a string, a time, an Error, or a []interface{} or
\* map[string]interface{} of such values, at every depth.
C18_InterfaceValues ==
    phase = "decoded" => Valid(src) /\ cerr = NoErr /\ dst = val

\* what the decoder does: the documents without an E-literal and without a
\* real beyond float64 are stored as the claim says; of the others, the one
\* whose first such literal is an E-literal is refused with the error "decoder
\* out of sync", the one whose first is the real with an UnmarshalTypeError,
\* and both store nothing
C18_ErrorLiteralRefused ==
    phase = "decoded" =>
        /\ Valid(src)
        /\ ~HasErrorLiteral /\ ~HasHugeReal => cerr = NoErr /\ dst = val
        /\ ErrorLiteralFirst => cerr = errPhase /\ dst = dst0
        /\ HasHugeReal /\ ~ErrorLiteralFirst =>
               cerr.kind = "UnmarshalTypeError" /\ cerr.lit = B(<<"1", "e", "9", "9", "9">>)
               /\ dst = dst0

(***************************************************************************)
(* Claims about the Encoder, checked under SpecEncode.                     *)
(***************************************************************************)
\* C19 as stated: once an Encode call has returned an error, the next call,
\* and so every later one, returns that same error and writes nothing to the
\* sink.
C19_EncoderLatches ==
    [][cerr # NoErr => cerr' = cerr /\ enc'.w.data = enc.w.data]_vars

\* C19 amended: the error of the sink's Write is kept and returned by every
\* later Encode call, which writes nothing; an Encode call whose value cannot
\* be marshalled returns that error and writes nothing, and the call after it
\* encodes and writes again.
C19_WriteErrorLatches ==
    [][/\ enc.err # NoErr => cerr' = enc.err /\ enc'.err = enc.err /\ enc'.w.data = enc.w.data
       /\ enc.err = NoErr /\ fed' = fed + 1 =>
          \E mk \in MapKeysOrders(val') :
             /\ Marshal(val', mk).err # NoErr =>
                   cerr' = Marshal(val', mk).err /\ enc'.err = NoErr /\ enc'.w.data = enc.w.data
             /\ Marshal(val', mk).err = NoErr /\ cerr' = NoErr =>
                   enc'.w.data = enc.w.data \o Marshal(val', mk).buf
                                 \o (IF enc.enabledEncodeNL THEN <<10>> ELSE <<>>)
             /\ Marshal(val', mk).err = NoErr /\ cerr' # NoErr =>
                   cerr' = ErrWrite /\ enc'.err = ErrWrite]_vars

\* the writer took no byte, the first call failed in Write, and a later call
\* with a channel returned the error of the writer, not that of Marshal
C19_Witness ==
    /\ phase = "stream" /\ enc # NoStream /\ fed >= 2
    /\ val = ChanV /\ cerr = ErrWrite /\ enc.err = ErrWrite /\ enc.w.data = <<>>

\* a call with a channel returned the error of Marshal and the call after it
\* wrote its value
C19_WitnessMarshalError ==
    /\ phase = "stream" /\ enc # NoStream /\ fed = 2
    /\ val = Seven /\ cerr = NoErr /\ enc.w.data = B(<<"7">>) /\ enc.w.room = MaxRoom - 1

(***************************************************************************)
(* Claims about the Decoder over a stream, checked under SpecStream.       *)
(***************************************************************************)
\* an error of the scanner or of the reader, io.EOF among them
StreamError(e) == e.kind \in {"syntax", EOF.kind, ErrUnexpectedEOF.kind, ErrRead.kind}

\* the documents 1..n of the stream are values
RECURSIVE ValidUpTo(_)
ValidUpTo(n) == n = 0 \/ (Valid(val[n]) /\ ValidUpTo(n - 1))

\* the bytes Decode hands to the decoder for document i: the value and the
\* space the scanner left unread before it
StreamValue(i) == IF i = 1 THEN val[1] ELSE B(<<" ">>) \o val[i]

\* the reader delivers document i with the byte that ends it: a document
\* follows it, or the reader ends in io.EOF
Delivered(i) == i < Len(val) \/ (i = Len(val) /\ dec.r.fail = EOF)

\* the call Decode(&d0) gave what Unmarshal gives for document i
DecodedAs(i, d0, u) == dst' = u.v.v /\ cerr' = u.err /\ hooks' = u.hooks
DecodesDocument(i, d0) == DecodedAs(i, d0, Unmarshal(StreamValue(i), PtrV(d0)))

\* C20: after Decode has returned a syntax error or an error of the reader,
\* every later Decode returns that same error, stores nothing and reads
\* nothing; after Decode has returned only an UnmarshalTypeError for a
\* value it read completely, the next Decode decodes the next value the
\* reader delivers as Unmarshal would
C20_DecoderLatches ==
    [][ phase = "decoding" =>
          /\ StreamError(cerr) => cerr' = cerr /\ dst' = dst0' /\ dec' = dec
          /\ (cerr.kind = "UnmarshalTypeError" /\ Delivered(fed + 1) /\ ValidUpTo(fed + 1))
                => DecodesDocument(fed + 1, dst0') ]_vars

\* the first call met a string for the int8, the second the byte that is no
\* value, and the third returned the syntax error of the second
C20_Witness ==
    /\ phase = "decoding" /\ fed = 3
    /\ val = << B(<<"'", "a", "'">>), B(<<"}">>), B(<<"7">>) >>
    /\ cerr.kind = "syntax" /\ dec.err = cerr
    /\ dec.r.data # <<>>

\* the call after a type mismatch decoded the next value
C20_WitnessTypeMismatch ==
    /\ phase = "decoding" /\ fed = 2
    /\ val = << B(<<"'", "a", "'">>), B(<<"7">>) >>
    /\ cerr = NoErr /\ dst = IntV(8, 7) /\ dec.err = NoErr

\* the documents 1..n as the stream holds them
StreamPrefix(n) == StreamBytes(SubSeq(val, 1, n))

\* C21: after Decode calls that each read a value, the bytes of the values
\* read, Buffered() and what the source has yet to deliver are the input:
\* Buffered() is what was read from the source after the last value
C21_BufferedRemainder ==
    (phase = "decoding" /\ fed <= Len(val) /\ ValidUpTo(fed) /\ dec.err = NoErr)
        => src = StreamPrefix(fed) \o Buffered(dec) \o dec.r.data

\* two values were decoded from a reader that gives two bytes at a time: the
\* buffer was refilled and slid, one byte read is left in it and one byte of
\* the source is still unread
C21_Witness ==
    /\ phase = "decoding" /\ fed = 2 /\ cerr = NoErr
    /\ val = << B(<<"7">>), B(<<"{", "7", "}">>), B(<<"7">>) >>
    /\ dec.r.chunk = 2 /\ dec.scanned > 0
    /\ Buffered(dec) = B(<<" ">>) /\ dec.r.data = B(<<"7">>)

\* the calls of Read that deliver the first n bytes of the source
ReadsFor(n) == (n + dec.r.chunk - 1) \div dec.r.chunk

IsComposite(doc) == doc # <<>> /\ doc[1] \in {Ord["{"], Ord["A"]}

\* C22: a Decode that read an array or an object has called Read as often
\* as it takes to deliver the closing delimiter, and not once more
C22_NoReadPastClosing ==
    (/\ phase = "decoding" /\ fed >= 1 /\ fed <= Len(val) /\ ValidUpTo(fed)
     /\ dec.err = NoErr /\ IsComposite(val[fed]))
        => dec.r.reads = ReadsFor(Len(StreamPrefix(fed)))

\* the one Read of a reader that would fail at the next delivered an object
\* whole, and Decode returned it
C22_Witness ==
    /\ phase = "decoding" /\ fed = 1 /\ cerr = NoErr
    /\ val = << B(<<"A", "<", "1", ",", "?", ">">>) >>
    /\ dec.r.chunk = 512 /\ dec.r.fail = ErrRead /\ dec.r.data = <<>>
    /\ dec.r.reads = 1 /\ dst # NilIface

\* the scanner takes every byte of doc and refuses the end of input after it
Incomplete(doc) ==
    /\ nonSpace(doc)
    /\ checkValidLoop(doc, 1, reset(ZeroScanner)).op # scanError
    /\ ~Valid(doc)

\* the last call gave what Unmarshal gives for document i
GaveDocument(i, u) == dst = u.v.v /\ cerr = u.err
GivesDocument(i) == GaveDocument(i, Unmarshal(StreamValue(i), PtrV(dst0)))

\* C23: over a source that ends in io.EOF, Decode decodes every value of a
\* stream of values, the last one also when only the end of input ends it,
\* and returns io.EOF once no value or only white space is left; it returns
\* io.ErrUnexpectedEOF when the values are followed by the beginning of one
C23_EndOfInput ==
    (phase = "decoding" /\ fed >= 1 /\ dec.r.fail = EOF) =>
        /\ (ValidUpTo(Len(val)) /\ fed <= Len(val)) => GivesDocument(fed)
        /\ (ValidUpTo(Len(val)) /\ fed > Len(val)) => cerr = EOF
        /\ (/\ val # <<>> /\ ValidUpTo(Len(val) - 1) /\ Incomplete(val[Len(val)])
            /\ fed >= Len(val)) => cerr = ErrUnexpectedEOF

\* the source held a number and nothing after it, and Decode stored it
C23_Witness ==
    /\ phase = "decoding" /\ fed = 1 /\ dec.r.fail = EOF
    /\ src = B(<<"7">>) /\ dec.r.data = <<>> /\ dec.r.reads = 2
    /\ cerr = NoErr /\ dst = IntV(8, 7)

\* a value was decoded and only a space was left: io.EOF
C23_WitnessSpace ==
    /\ phase = "decoding" /\ fed = 2 /\ dec.r.fail = EOF
    /\ src = B(<<"{", "7", "}", " ">>) /\ cerr = EOF

\* the beginning of an array was left: io.ErrUnexpectedEOF
C23_WitnessIncomplete ==
    /\ phase = "decoding" /\ fed = 2 /\ dec.r.fail = EOF
    /\ src = B(<<"7", " ", "{", "7">>) /\ cerr = ErrUnexpectedEOF

(***************************************************************************)
(* Claims about the Token API, checked under SpecTokens (Token calls only) *)
(* and SpecToken (Token, Decode and More calls).                           *)
(***************************************************************************)
\* the Tokens returned so far are the first Tokens of the document, no call
\* has returned an error but io.EOF, and io.EOF came after the last Token
TokensAsWritten ==
    /\ Len(toks) <= Len(val.toks)
    /\ \A i \in 1..Len(toks) : toks[i] = val.toks[i].tok
    /\ cerr \in {NoErr, EOF}
    /\ cerr = EOF => Len(toks) = Len(val.toks)

\* the text holds an object without members
HasEmptyObject(s) ==
    \E i \in 1..Len(s) :
        /\ i + 5 <= Len(s)
        /\ SubSeq(s, i, i + 5) \in {B(<<"A", "<", "1", ",", "?", ">">>),
                                    B(<<"A", "<", "1", ",", "N", ">">>)}

\* C24: for every Oscript document, objects and arrays without elements
\* included, repeated Token calls return the Delims, keys and scalars of
\* the document in its order without an error, and io.EOF after them
C24_TokensOfDocument ==
    (phase \in {"tokens", "token"} /\ val.ok) => TokensAsWritten

\* ... which holds for the documents without an empty object
C24_TokensWithoutEmptyObject ==
    (phase \in {"tokens", "token"} /\ val.ok /\ ~HasEmptyObject(src)) => TokensAsWritten

\* all Tokens of A<1,?,'o'={A<1,?,'a'=7>}> were returned, then io.EOF
C24_WitnessNested ==
    /\ phase = "token" /\ val = TokObject(<<TokMember("o", TokArray(<<TokObjA>>))>>)
    /\ Len(toks) = 9 /\ cerr = EOF

\* the Delims still open after the Tokens ts, the most recent last: [ok,
\* open], ok being FALSE once a closing Delim did not close the most recent
\* opening of its kind of composite
RECURSIVE OpenDelims(_, _)
OpenDelims(ts, open) ==
    IF ts = <<>> THEN [ok |-> TRUE, open |-> open]
    ELSE IF Head(ts) \in {Delim("{"), Delim("A")}
    THEN OpenDelims(Tail(ts), Append(open, Head(ts)))
    ELSE IF Head(ts) \in {Delim("}"), Delim(">")}
    THEN IF /\ open # <<>>
            /\ open[Len(open)] = (IF Head(ts) = Delim("}") THEN Delim("{") ELSE Delim("A"))
         THEN OpenDelims(Tail(ts), SubSeq(open, 1, Len(open) - 1))
         ELSE [ok |-> FALSE, open |-> open]
    ELSE OpenDelims(Tail(ts), open)

\* the Tokens returned; a value a Decode stored holds no Delim
Returned == SelectSeq(toks, LAMBDA t : t \in {Delim("{"), Delim("}"), Delim("A"), Delim(">")})

\* the next byte of the source that is no space is the closing delimiter of
\* a composite that is not the most recent one still open
StrayClosing(p, o) ==
    /\ p.err = NoErr
    /\ \/ p.c = Ord["}"] /\ (o.open = <<>> \/ o.open[Len(o.open)] # Delim("{"))
       \/ p.c = Ord[">"] /\ (o.open = <<>> \/ o.open[Len(o.open)] # Delim("A"))

\* C25: on any input every closing Delim Token returns closes the most
\* recent Delim still open, which is of its kind; Token answers a closing
\* delimiter met elsewhere with a SyntaxError and no Token, and never takes
\* a state off the empty stack
C25_DelimsNested ==
    [][ phase' = "token" =>
          /\ OpenDelims(Returned', <<>>).ok
          /\ Len(dec'.tokenStack) = Len(OpenDelims(Returned', <<>>).open)
          /\ cerr' # Panic
          /\ StrayClosing(peek(dec), OpenDelims(Returned, <<>>))
                => cerr'.kind = "syntax" /\ toks' = toks ]_vars

\* Token returned both Delims of the array of {{7>} and a SyntaxError for
\* the > in it
C25_Witness ==
    /\ phase = "token" /\ src = B(<<"{", "{", "7", ">", "}">>)
    /\ toks = <<Delim("{"), Delim("{"), IfaceV(IntV(64, 7))>>
    /\ cerr.kind = "syntax" /\ cerr.c = Ord[">"]
    /\ Len(dec.tokenStack) = 2

\* the index in the expected Tokens ets of the last Token of the value that
\* begins at i: i for a scalar, the closing Delim for a composite
RECURSIVE ClosingOf(_, _, _)
ClosingOf(ets, i, depth) ==
    IF ets[i].role = "close"
    THEN IF depth = 1 THEN i ELSE ClosingOf(ets, i + 1, depth - 1)
    ELSE IF ets[i].role = "open" THEN ClosingOf(ets, i + 1, depth + 1)
    ELSE ClosingOf(ets, i + 1, depth)
ValueEnd(ets, i) == IF ets[i].role = "open" THEN ClosingOf(ets, i + 1, 1) ELSE i

IsDecoded(t) == "k" \in DOMAIN t /\ t.k = "decoded"

\* the number of expected Tokens ets that the calls recorded in ts have
\* passed: one for a Token, those of the whole value for a Decode
RECURSIVE Passed(_, _, _)
Passed(ets, ts, n) ==
    IF ts = <<>> THEN n
    ELSE IF IsDecoded(Head(ts)) THEN Passed(ets, Tail(ts), ValueEnd(ets, n + 1))
    ELSE Passed(ets, Tail(ts), n + 1)
\* the position of the decoder in the document
Pos == Passed(val.toks, toks, 0)

\* a value begins at the position: a scalar or the opening of a composite
ValueMayStart(n) == n < Len(val.toks) /\ val.toks[n + 1].role \in {"value", "open"}
\* a key or a closing delimiter is at the position
NoValueHere(n) == n < Len(val.toks) /\ val.toks[n + 1].role \in {"key", "close"}

\* C26: a Decode between Token calls stores a value only where one begins;
\* where a key or a closing delimiter is next it returns a SyntaxError and
\* leaves the token state as it was; the Token call after a Decode that
\* stored a value inside a composite returns what follows that value: the
\* next element or key, or the closing Delim of the composite
C26_DecodeBetweenTokens ==
    [][ val.ok =>
          /\ (phase' = "decode" /\ cerr' = NoErr)
                => /\ ValueMayStart(Pos)
                   /\ val.toks[Pos + 1].role = "value" => dst' = val.toks[Pos + 1].tok
          /\ (phase' = "decode" /\ NoValueHere(Pos))
                => /\ cerr'.kind = "syntax" /\ toks' = toks
                   /\ dec'.tokenState = dec.tokenState
                   /\ dec'.tokenStack = dec.tokenStack
          /\ (/\ phase = "decode" /\ cerr = NoErr /\ dec.tokenStack # <<>>
              /\ phase' = "token")
                => /\ cerr' = NoErr
                   /\ toks' = Append(toks, val.toks[Pos + 1].tok) ]_vars

\* in {7,'a'} the 7 was stored by Decode and the Token call after it
\* returned the string
C26_Witness ==
    /\ phase = "token" /\ cerr = NoErr /\ val = TokArray(<<TokSeven, TokString>>)
    /\ toks = <<Delim("{"), Decoded(IfaceV(IntV(64, 7))), IfaceV(StringV(B(<<"a">>)))>>

\* Decode was called before the key of an object and returned a SyntaxError
C26_WitnessRefused ==
    /\ phase = "decode" /\ val = TokObjA /\ toks = <<Delim("A")>>
    /\ cerr.kind = "syntax" /\ dec.tokenState = tokenObjectStart

\* the innermost composite has an element that was not yet returned: the
\* Token at the position is not its closing Delim
ElementLeft(n) == n < Len(val.toks) /\ val.toks[n + 1].role # "close"

\* C27: inside an array or object of an Oscript document, also directly
\* after the opening Delim, More returns true exactly if the innermost
\* composite has an element that was not yet returned
C27_MoreReportsElements ==
    [][ (val.ok /\ phase' = "more" /\ dec.tokenStack # <<>>)
            => more' = ElementLeft(Pos) ]_vars

\* ... which holds but directly after Delim('A'), where More returns true
\* also for the object without members
C27_MoreButAfterHeader ==
    [][ (val.ok /\ phase' = "more" /\ dec.tokenStack # <<>>)
            => more' = (ElementLeft(Pos) \/ dec.tokenState = tokenObjectStart) ]_vars

\* More returned false before the closing of the array of {7}
C27_WitnessArrayEnd ==
    /\ phase = "more" /\ val = TokArray(<<TokSeven>>)
    /\ Len(toks) = 2 /\ ~more /\ dec.tokenStack # <<>>

(***************************************************************************)
(* Claims about the text of objects, integers and dates.                   *)
(***************************************************************************)
\* the first byte of s after 0-based i that is no white space is a quote
RECURSIVE KeyFollows(_, _)
KeyFollows(s, i) ==
    /\ i < Len(s)
    /\ IF isSpace(s[i + 1]) THEN KeyFollows(s, i + 1) ELSE s[i + 1] = Ord["'"]

\* s[i:] begins with A<1, then ? or N, then > or a comma and a quoted key
HeaderOK(s, i) ==
    /\ Len(s) >= i + 6
    /\ Slice(s, i, i + 4) = B(<<"A", "<", "1", ",">>)
    /\ s[i + 5] \in {Ord["?"], Ord["N"]}
    /\ \/ s[i + 6] = Ord[">"]
       \/ s[i + 6] = Ord[","] /\ KeyFollows(s, i + 6)

\* an object begins at 0-based i of src: the text itself, or the first
\* element of the array it is
ObjectBegins(i) ==
    /\ Len(src) > i /\ src[i + 1] = Ord["A"]
    /\ i = 0 \/ (i = 1 /\ src[1] = Ord["{"])

BadHeader == \E i \in {0, 1} : ObjectBegins(i) /\ ~HeaderOK(src, i)

\* C28: a text in which an object begins with other bytes than A<1, then
\* ? or N, then > or a comma and (after optional white space) the quote of
\* a key, is not valid: Valid returns false and Unmarshal a SyntaxError
C28_ObjectHeader ==
    (phase \in {"checked", "decoded"} /\ BadHeader) => cerr.kind = "syntax"

\* Unmarshal has refused A<1,x>
C28_Witness ==
    /\ phase = "decoded" /\ src = B(<<"A", "<", "1", ",", "x", ">">>)
    /\ BadHeader /\ cerr.kind = "syntax"

\* Valid has accepted the object with header A<1,N, and a space before the key
C28_WitnessAccepted ==
    /\ phase = "checked" /\ Len(src) = 13 /\ HeaderOK(src, 0) /\ src[7] = Ord[" "]
    /\ cerr = NoErr

\* the bytes of s after an optional L and an optional -
IntRun(s) ==
    LET l == IF s # <<>> /\ s[1] = Ord["L"] THEN 1 ELSE 0
        m == IF Len(s) > l /\ s[l + 1] = Ord["-"] THEN 1 ELSE 0
    IN Slice(s, l + m, Len(s))

AllDigits(s) == \A i \in 1..Len(s) : IsDigit(s[i])

\* an optional L, an optional -, and a non-empty run of digits
IntForm(s) == IntRun(s) # <<>> /\ AllDigits(IntRun(s))

\* no digit follows the prefix
NoDigit(s) == IntRun(s) = <<>> \/ ~IsDigit(IntRun(s)[1])

\* C29: Valid returns true for an optional L, an optional - and any
\* non-empty run of digits, and false when no digit follows the prefix
C29_IntegerForm ==
    (phase = "checked" /\ src \in IntTexts)
        => /\ IntForm(src) => cerr = NoErr
           /\ NoDigit(src) => cerr # NoErr

\* the run of digits has no leading 0, or there is no prefix before it
NoLeadingZero(s) ==
    \/ Len(IntRun(s)) = 1
    \/ IntRun(s)[1] # Ord["0"]
    \/ IntRun(s) = s

\* ... while Valid returns true exactly for the literals of that form whose
\* run of digits, when an L or a - precedes it, is 0 or begins with 1 to 9
C29_IntegerWithoutLeadingZero ==
    (phase = "checked" /\ src \in IntTexts)
        => (cerr = NoErr) = (IntForm(src) /\ NoLeadingZero(src))

\* Valid has accepted L-70
C29_WitnessAccepted ==
    /\ phase = "checked" /\ src = B(<<"L", "-", "7", "0">>) /\ cerr = NoErr

\* Valid has refused -07 and accepted nothing of it
C29_WitnessLeadingZero ==
    /\ phase = "checked" /\ src = B(<<"-", "0", "7">>)
    /\ IntForm(src) /\ cerr.kind = "syntax"

\* s from 0-based i on is the fields g to 6 of D/Y/M/D:H:M:S: a year of 1
\* to maxYear digits, the other fields of 1 or 2 digits; with anyTail the
\* second may be followed by more bytes
RECURSIVE DateFormFrom(_, _, _, _, _)
DateFormFrom(s, i, g, maxYear, anyTail) ==
    LET k == TakeDigits(s, i)
        seps == B(<<"/", "/", ":", ":", ":">>)
    IN IF g = 6 THEN k >= 1 /\ (anyTail \/ (k <= 2 /\ i + k = Len(s)))
       ELSE /\ k >= 1 /\ k <= (IF g = 1 THEN maxYear ELSE 2)
            /\ i + k < Len(s) /\ s[i + k + 1] = seps[g]
            /\ DateFormFrom(s, i + k + 1, g + 1, maxYear, anyTail)

\* D/Y/M/D:H:M:S with Y of 1 to 4 digits and the others of 1 or 2 digits
DateForm(s) ==
    /\ Len(s) >= 2 /\ s[1] = Ord["D"] /\ s[2] = Ord["/"]
    /\ DateFormFrom(s, 2, 1, 4, FALSE)

\* the same with a year of any length and any bytes after the first digit
\* of the second
DateFormLoose(s) ==
    /\ Len(s) >= 2 /\ s[1] = Ord["D"] /\ s[2] = Ord["/"]
    /\ DateFormFrom(s, 2, 1, Len(s), TRUE)

DateChecked == phase \in {"checked", "decoded"} /\ src # <<>> /\ src[1] = Ord["D"]

\* C30: a literal beginning with D that is not D/Y/M/D:H:M:S, Y of 1 to 4
\* digits and the other fields of 1 or 2 digits, is rejected by Valid and by
\* Unmarshal into a time.Time or an interface{}
C30_DateForm ==
    (DateChecked /\ ~DateForm(src)) => cerr # NoErr

\* ... while Valid accepts every D followed by digits, slashes and colons,
\* and Unmarshal every such literal that begins with a date whose year has
\* one digit or more
C30_DateAccepted ==
    DateChecked
        => (cerr = NoErr) = (phase = "checked" \/ DateFormLoose(src))

\* the literals of the form are accepted, and Unmarshal stores their fields
C30_DateFormAccepted ==
    (DateChecked /\ DateForm(src))
        => /\ cerr = NoErr
           /\ (phase = "decoded" /\ src = DateBase)
                  => dst \in {TimeV(2019, 1, 3, 3, 3, 3), IfaceV(TimeV(2019, 1, 3, 3, 3, 3))}

\* Unmarshal has stored the date with a year of five digits
C30_WitnessLongYear ==
    /\ phase = "decoded" /\ src = DateLens(5, 2, 1) /\ ~DateForm(src)
    /\ cerr = NoErr /\ dst = TimeV(20191, 1, 3, 3, 3, 3)

\* Valid has accepted the D-literal without fields
C30_WitnessNoFields ==
    /\ phase = "checked" /\ src = B(<<"D", "/">>) /\ cerr = NoErr

\* Unmarshal has refused the date with a month of three digits
C30_WitnessRefused ==
    /\ phase = "decoded" /\ src = DateLens(4, 2, 3) /\ cerr # NoErr /\ dst = dst0

(***************************************************************************)
(* Driver of the decoder over destinations of many types: a caller holds a *)
(* valid document, a literal of every kind or an object with one or two    *)
(* keys, alone or inside an array or an object, and a destination: an      *)
(* empty interface, a number, a string, a time, an Error, maps with        *)
(* integer keys, slices and maps of them and records, and calls            *)
(* Unmarshal(src, &dst).                                                   *)
(***************************************************************************)
\* type TK struct { K map[int8]int8; X int8 }
TK == StructT("TK", <<SF(B(<<"K">>), NoTag, MapT(IntT(8), IntT(8))),
                      SF(B(<<"X">>), NoTag, IntT(8))>>, FALSE)

\* the literals: those of Literals and more integers, reals, strings and
\* E-literals
DestLiterals ==
    {d.s : d \in Literals}
    \cup { B(<<"1", "7">>), B(<<"-", "5">>), B(<<"L", "5">>), B(<<"L", "-", "5">>),
           B(<<"G", "1">>), B(<<"G", "-", "2">>), B(<<"'", "1", "'">>), B(<<"'", "'">>),
           B(<<"E", "0">>), B(<<"E", "7">>), B(<<"E", "0", "7">>), B(<<"E", "3", "0", "0">>) }

\* the objects A<1,?,'k1'=7> and A<1,?,'k1'=7,'k2'=8>
DestKeys == { B(<<"1">>), B(<<"2">>), B(<<"x">>), B(<<"3", "0", "0">>) }
OneKeyText(k1) ==
    B(<<"A", "<", "1", ",", "?", ",", "'">>) \o k1 \o B(<<"'", "=", "7", ">">>)
TwoKeyText(k1, k2) ==
    B(<<"A", "<", "1", ",", "?", ",", "'">>) \o k1 \o B(<<"'", "=", "7", ",", "'">>) \o k2
        \o B(<<"'", "=", "8", ">">>)

DestInner ==
    DestLiterals \cup {OneKeyText(k1) : k1 \in DestKeys}
    \cup {TwoKeyText(k1, k2) : k1, k2 \in DestKeys}

\* a document alone, in an array, before an element of an array, and as the
\* member k or 1 of an object
DestTexts ==
    DestInner
    \cup {B(<<"{">>) \o x \o B(<<"}">>) : x \in DestInner}
    \cup {B(<<"{">>) \o x \o B(<<",", "7", "}">>) : x \in DestInner}
    \cup {B(<<"A", "<", "1", ",", "?", ",", "'", "k", "'", "=">>) \o x \o B(<<">">>) : x \in DestInner}
    \cup {B(<<"A", "<", "1", ",", "?", ",", "'", "1", "'", "=">>) \o x \o B(<<">">>) : x \in DestInner}

\* the destinations, with their prior contents
DestValues ==
    { NilIface, IfaceV(Seven), Seven, IntV(8, 7), BoolV(TRUE), StringV(B(<<"a">>)),
      TimeV(2019, 12, 4, 11, 47, 16), ErrorV(0), ErrorV(3),
      MapV(IntT(8), IntT(8), 5 :> IntV(8, 5)), MapV(UintT(8), IntT(8), <<>>),
      MapV(StringT, IfaceT, <<>>), MapV(StringT, MapT(IntT(8), IntT(8)), <<>>),
      MapV(IntT(8), MapT(IntT(8), IntT(8)), <<>>),
      NilSlice(IfaceT), NilSlice(IntT(8)), NilSlice(ErrorT), NilSlice(MapT(IntT(8), IntT(8))),
      StructV(T3, <<IntV(8, 7), StringV(B(<<"a">>))>>),
      StructV(TK, <<NilMap(IntT(8), IntT(8)), IntV(8, 7)>>) }

InitDest ==
    /\ phase = "input"
    /\ src \in DestTexts
    /\ dst0 \in DestValues
    /\ dst = dst0
    /\ val = NilIface
    /\ fed = 0 /\ scan = reset(ZeroScanner)
    /\ out0 = <<>> /\ out = <<>> /\ out2 = <<>> /\ cerr = NoErr /\ hooks = <<>> /\ toks = <<>> /\ more = FALSE
    /\ NoCategories /\ NoGoroutines
    /\ enc = NoStream /\ dec = NoStream

NextDest == CallUnmarshal

SpecDest == InitDest /\ [][NextDest]_vars

(***************************************************************************)
(* Goroutines (endpoint.go): the caches encoderCache and fieldCache are    *)
(* sync.Maps shared by all goroutines.  A goroutine is a stack of frames;  *)
(* one step of a goroutine is one access to shared memory (a Load,         *)
(* LoadOrStore or Store of a cache, wg.Done, wg.Wait) followed by the      *)
(* code that the goroutine runs on its own up to its next access.  The     *)
(* types are named, so that a type can refer to itself:                    *)
(*   type T struct { V int; N *T }                                         *)
(*   type A struct { B *B }    type B struct { A *A; V interface{} }       *)
(* funcs holds the closures that typeEncoder allocates: wg is done, f is   *)
(* the variable f of that call, won tells that LoadOrStore stored it.      *)
(***************************************************************************)
GoKind(t) ==
    CASE t = "int" -> "int"
      [] t = "interface{}" -> "iface"
      [] t \in {"T", "A", "B"} -> "struct"
      [] t \in {"*T", "*A", "*B"} -> "ptr"
GoElem(t) == CASE t = "*T" -> "T" [] t = "*A" -> "A" [] t = "*B" -> "B"
GoFields(t) ==
    CASE t = "T" -> <<[name |-> B(<<"V">>), typ |-> "int"], [name |-> B(<<"N">>), typ |-> "*T"]>>
      [] t = "A" -> <<[name |-> B(<<"B">>), typ |-> "*B"]>>
      [] t = "B" -> <<[name |-> B(<<"A">>), typ |-> "*A"],
                      [name |-> B(<<"V">>), typ |-> "interface{}"]>>

\* sync.Map.LoadOrStore(k, v): [m, actual, loaded]
MapLoadOrStoreBlind(m, k, v) == [m |-> MapStore(m, k, v), actual |-> v, loaded |-> FALSE]
MapLoadOrStore(m, k, v) ==
    IF k \in DOMAIN m THEN [m |-> m, actual |-> m[k], loaded |-> TRUE]
    ELSE [m |-> MapStore(m, k, v), actual |-> v, loaded |-> FALSE]

\* the encoderFuncs: the indirect func of typeEncoder, closure id of funcs, and
\* the encoders that newTypeEncoder returns
NoFunc == [k |-> "nil"]
indirectFunc(id) == [k |-> "indirect", id |-> id]
ptrEncoderOf(elemEnc) == [k |-> "ptrEncoder", elemEnc |-> elemEnc]
structEncoderOf(fields) == [k |-> "structEncoder", fields |-> fields]

\* the frames: e.reflectValue(v), typeEncoder(t), cachedTypeFields(t), the call
\* enc(e, v), and bytes that the goroutine is about to write to e
ReflectFrame(v) == [k |-> "reflectValue", v |-> v]
TypeEncoderFrame(t) == [k |-> "typeEncoder", t |-> t, pc |-> "LoadOrStore", id |-> 0, f |-> NoFunc]
FieldsFrame(t) == [k |-> "cachedTypeFields", t |-> t, pc |-> "Load", fields |-> <<>>]
CallFrame(fn, v) == [k |-> "call", enc |-> fn, v |-> v]
WriteFrame(b) == [k |-> "write", b |-> b]
PanicFrame == [k |-> "panic"]

Top(stack) == stack[Len(stack)]
Rest(stack) == SubSeq(stack, 1, Len(stack) - 1)

\* the frames of structEncoder.encode from field i on, the first to run last
RECURSIVE structFrames(_, _, _)
structFrames(fields, v, i) ==
    IF i > Len(fields) THEN <<WriteFrame(B(<<">">>))>>
    ELSE structFrames(fields, v, i + 1)
         \o <<CallFrame(fields[i].encoder, v.f[i]),
              WriteFrame(B(<<",">>) \o string(fields[i].name) \o B(<<"=">>))>>

\* fn(e, v) for an encoder that is not the indirect func: the frames it leaves
encodeFrames(fn, v) ==
    CASE fn.k = "intEncoder" -> <<WriteFrame(FormatInt(v.n))>>
      [] fn.k = "interfaceEncoder" ->
           IF v.nil THEN <<WriteFrame(<<undefined>>)>> ELSE <<ReflectFrame(v.v)>>
      [] fn.k = "ptrEncoder" ->
           IF v.nil THEN <<WriteFrame(<<undefined>>)>> ELSE <<CallFrame(fn.elemEnc, v.v)>>
      [] fn.k = "structEncoder" ->
           structFrames(fn.fields, v, 1) \o <<WriteFrame(B(<<"A", "<", "1", ",", "?">>))>>

\* the one element of a set of one element
Only(S) == CHOOSE x \in S : TRUE

\* the goroutine runs on its own until its next access to shared memory
RECURSIVE runAlone(_, _)
runAlone(stack, buf) ==
    IF stack = <<>> THEN [stack |-> stack, buf |-> buf]
    ELSE IF Top(stack).k = "write"
    THEN Only({runAlone(s, b) : s \in {Rest(stack)}, b \in {buf \o Top(stack).b}})
    ELSE IF Top(stack).k = "call" /\ Top(stack).enc.k # "indirect"
    THEN Only({runAlone(s, buf) :
                  s \in {Rest(stack) \o encodeFrames(Top(stack).enc, Top(stack).v)}})
    ELSE [stack |-> stack, buf |-> buf]

\* typeFields: the field i of the frame top gets the encoder x
withFieldInFront(top, x) ==
    LET fs == <<[name |-> GoFields(top.t)[Len(top.fields) + 1].name, encoder |-> x]>>
              \o top.fields
    IN [top EXCEPT !.fields = fs,
                   !.pc = IF Len(fs) = Len(GoFields(top.t)) THEN "LoadOrStore" ELSE "typeFields"]
withField(top, x) ==
    LET fs == Append(top.fields, [name |-> GoFields(top.t)[Len(top.fields) + 1].name,
                                  encoder |-> x])
    IN [top EXCEPT !.fields = fs,
                   !.pc = IF Len(fs) = Len(GoFields(top.t)) THEN "LoadOrStore" ELSE "typeFields"]

\* a call returns x to the frame below it
returnTo(stack, x) ==
    IF stack = <<>> THEN stack
    ELSE CASE Top(stack).k = "reflectValue" -> Rest(stack) \o <<CallFrame(x, Top(stack).v)>>
           [] Top(stack).k = "cachedTypeFields" -> Rest(stack) \o <<withField(Top(stack), x)>>
           [] Top(stack).k = "typeEncoder" /\ Top(stack).pc = "newPtrEncoder" ->
                Rest(stack) \o <<[Top(stack) EXCEPT !.pc = "Done", !.f = ptrEncoderOf(x)]>>
           [] Top(stack).k = "typeEncoder" /\ Top(stack).pc = "newStructEncoder" ->
                Rest(stack) \o <<[Top(stack) EXCEPT !.pc = "Done", !.f = structEncoderOf(x)]>>

\* f = newTypeEncoder(t, true): the variable f of the closure of the frame on
\* top is assigned when newTypeEncoder has returned
assignF(fs, stack) ==
    IF stack # <<>> /\ Top(stack).k = "typeEncoder" /\ Top(stack).pc = "Done"
    THEN [fs EXCEPT ![Top(stack).id].f = Top(stack).f]
    ELSE fs

\* newTypeEncoder(t, true) up to its first access to shared memory: the frames
\* that replace the frame top of typeEncoder, whose closure is id
newTypeEncoderFrames(top, id) ==
    CASE GoKind(top.t) = "int" -> <<[top EXCEPT !.pc = "Done", !.id = id, !.f = [k |-> "intEncoder"]]>>
      [] GoKind(top.t) = "iface" ->
           <<[top EXCEPT !.pc = "Done", !.id = id, !.f = [k |-> "interfaceEncoder"]]>>
      [] GoKind(top.t) = "ptr" -> <<[top EXCEPT !.pc = "newPtrEncoder", !.id = id]>>
      [] GoKind(top.t) = "struct" ->
           <<[top EXCEPT !.pc = "newStructEncoder", !.id = id], FieldsFrame(top.t)>>

(***************************************************************************)
(* Driver of the goroutines: MaxGoroutines goroutines start together, each *)
(* with a call of Marshal(v), v of a recursive type, or a call of          *)
(* cachedTypeFields(t), as the decoder makes it for a record destination.  *)
(***************************************************************************)
MaxGoroutines == 2

GoInt(n) == [t |-> "int", n |-> n]
GoNil(t) == [t |-> t, nil |-> TRUE]
GoPtr(t, v) == [t |-> t, nil |-> FALSE, v |-> v]
GoStruct(t, f) == [t |-> t, f |-> f]

\* T{1, &T{2, nil}} and B{&A{&B{nil, nil}}, 7}
ListValue == GoStruct("T", <<GoInt(1), GoPtr("*T", GoStruct("T", <<GoInt(2), GoNil("*T")>>))>>)
PairValue ==
    GoStruct("B", <<GoPtr("*A", GoStruct("A", <<GoPtr("*B",
                        GoStruct("B", <<GoNil("*A"), GoNil("interface{}")>>))>>)),
                    GoPtr("interface{}", GoInt(7))>>)

\* the output of Marshal(v) when no other goroutine runs
RECURSIVE Sequential(_)
RECURSIVE SequentialFields(_, _)
SequentialFields(v, i) ==
    IF i > Len(v.f) THEN B(<<">">>)
    ELSE B(<<",">>) \o string(GoFields(v.t)[i].name) \o B(<<"=">>) \o Sequential(v.f[i])
         \o SequentialFields(v, i + 1)
Sequential(v) ==
    CASE GoKind(v.t) = "int" -> FormatInt(v.n)
      [] GoKind(v.t) \in {"iface", "ptr"} -> IF v.nil THEN <<undefined>> ELSE Sequential(v.v)
      [] GoKind(v.t) = "struct" -> B(<<"A", "<", "1", ",", "?">>) \o SequentialFields(v, 1)

\* the calls the goroutines make; want is the output of a sequential Marshal(v)
MarshalJob(v) == [k |-> "Marshal", v |-> v, t |-> v.t, want |-> Sequential(v)]
FieldsJob(t) == [k |-> "cachedTypeFields", v |-> GoNil(t), t |-> t, want |-> <<>>]
GoJobs ==
    << MarshalJob(ListValue), MarshalJob(GoPtr("*T", ListValue)), MarshalJob(PairValue),
       FieldsJob("T"), FieldsJob("B") >>

Goroutine(job) ==
    [job |-> job, buf |-> <<>>, res |-> <<>>,
     stack |-> IF job.k = "Marshal" THEN <<ReflectFrame(job.v)>> ELSE <<FieldsFrame(job.t)>>]

InitConc ==
    /\ phase = "go"
    /\ \E js \in [1..MaxGoroutines -> 1..Len(GoJobs)] :
         /\ \A g \in 1..(MaxGoroutines - 1) : js[g] <= js[g + 1]
         /\ gor = [g \in 1..MaxGoroutines |-> Goroutine(GoJobs[js[g]])]
    /\ encoderCache = <<>> /\ fieldCache = <<>> /\ funcs = <<>>
    /\ src = <<>> /\ val = NilIface /\ dst0 = NilIface /\ dst = NilIface
    /\ fed = 0 /\ scan = reset(ZeroScanner)
    /\ out0 = <<>> /\ out = <<>> /\ out2 = <<>> /\ cerr = NoErr /\ hooks = <<>> /\ toks = <<>> /\ more = FALSE
    /\ NoCategories
    /\ enc = NoStream /\ dec = NoStream

ConcUnchanged ==
    UNCHANGED <<phase, src, fed, scan, out0, out, out2, cerr, val, dst, dst0, hooks, enc, dec,
                toks, more, catVars>>

\* goroutine g goes on with the stack as its step left it
GoOn(g, stack, fs, res) ==
    \E s \in {stack} :
      /\ \E r \in {runAlone(s, gor[g].buf)} :
           gor' = [gor EXCEPT ![g].stack = r.stack, ![g].buf = r.buf, ![g].res = res]
      /\ funcs' = assignF(fs, s)

\* a call of goroutine g returns x to the frame on top of stack; the call that
\* the goroutine began with returns x to the caller
Return(g, stack, x, fs) ==
    GoOn(g, returnTo(stack, x), fs, IF stack = <<>> THEN x ELSE gor[g].res)

Running(g) == gor[g].stack # <<>>
TopOf(g) == Top(gor[g].stack)
RestOf(g) == Rest(gor[g].stack)

\* e.reflectValue(v): valueEncoder(v) calls typeEncoder(v.Type()), which
\* begins with encoderCache.Load(t)
ReflectValue(g) ==
    /\ Running(g) /\ TopOf(g).k = "reflectValue"
    /\ \E l \in {MapLoad(encoderCache, TopOf(g).v.t)} :
         IF l.ok THEN Return(g, gor[g].stack, l.v, funcs)
         ELSE GoOn(g, Append(gor[g].stack, TypeEncoderFrame(TopOf(g).v.t)), funcs, gor[g].res)
    /\ UNCHANGED <<encoderCache, fieldCache>>
    /\ ConcUnchanged

\* typeEncoder after the Load that missed: wg.Add(1), encoderCache.LoadOrStore
\* of the indirect func; if loaded, return it, else newTypeEncoder(t, true)
TypeEncoderLoadOrStore(g) ==
    /\ Running(g) /\ TopOf(g).k = "typeEncoder" /\ TopOf(g).pc = "LoadOrStore"
    /\ \E id \in {Len(funcs) + 1} :
         \E r \in {MapLoadOrStore(encoderCache, TopOf(g).t, indirectFunc(id))} :
           /\ encoderCache' = r.m
           /\ IF r.loaded THEN Return(g, RestOf(g), r.actual, funcs)
              ELSE GoOn(g, RestOf(g) \o newTypeEncoderFrames(TopOf(g), id),
                        Append(funcs, [t |-> TopOf(g).t, done |-> FALSE, f |-> NoFunc, g |-> g]),
                        gor[g].res)
    /\ UNCHANGED fieldCache
    /\ ConcUnchanged

\* newPtrEncoder(t): typeEncoder(t.Elem()), which begins with the Load
NewPtrEncoder(g) ==
    /\ Running(g) /\ TopOf(g).k = "typeEncoder" /\ TopOf(g).pc = "newPtrEncoder"
    /\ \E l \in {MapLoad(encoderCache, GoElem(TopOf(g).t))} :
         IF l.ok THEN Return(g, gor[g].stack, l.v, funcs)
         ELSE GoOn(g, Append(gor[g].stack, TypeEncoderFrame(GoElem(TopOf(g).t))), funcs, gor[g].res)
    /\ UNCHANGED <<encoderCache, fieldCache>>
    /\ ConcUnchanged

\* wg.Done() of typeEncoder
WgDone(g) ==
    /\ Running(g) /\ TopOf(g).k = "typeEncoder" /\ TopOf(g).pc = "Done"
    /\ GoOn(g, RestOf(g) \o <<[TopOf(g) EXCEPT !.pc = "Store"]>>,
            [funcs EXCEPT ![TopOf(g).id].done = TRUE], gor[g].res)
    /\ UNCHANGED <<encoderCache, fieldCache>>
    /\ ConcUnchanged

\* encoderCache.Store(t, f); return f
TypeEncoderStore(g) ==
    /\ Running(g) /\ TopOf(g).k = "typeEncoder" /\ TopOf(g).pc = "Store"
    /\ encoderCache' = MapStore(encoderCache, TopOf(g).t, TopOf(g).f)
    /\ Return(g, RestOf(g), TopOf(g).f, funcs)
    /\ UNCHANGED fieldCache
    /\ ConcUnchanged

\* cachedTypeFields(t): fieldCache.Load(t); if it misses, typeFields(t)
CachedTypeFieldsLoad(g) ==
    /\ Running(g) /\ TopOf(g).k = "cachedTypeFields" /\ TopOf(g).pc = "Load"
    /\ \E l \in {MapLoad(fieldCache, TopOf(g).t)} :
         IF l.ok THEN Return(g, RestOf(g), l.v, funcs)
         ELSE GoOn(g, RestOf(g) \o <<[TopOf(g) EXCEPT !.pc = "typeFields"]>>, funcs, gor[g].res)
    /\ UNCHANGED <<encoderCache, fieldCache>>
    /\ ConcUnchanged

\* typeFields(t): f.encoder = typeEncoder(typeByIndex(t, f.index)) for the
\* next field, which begins with the Load
TypeFieldsEncoder(g) ==
    /\ Running(g) /\ TopOf(g).k = "cachedTypeFields" /\ TopOf(g).pc = "typeFields"
    /\ \E t \in {GoFields(TopOf(g).t)[Len(TopOf(g).fields) + 1].typ} :
         \E l \in {MapLoad(encoderCache, t)} :
           IF l.ok THEN Return(g, gor[g].stack, l.v, funcs)
           ELSE GoOn(g, Append(gor[g].stack, TypeEncoderFrame(t)), funcs, gor[g].res)
    /\ UNCHANGED <<encoderCache, fieldCache>>
    /\ ConcUnchanged

\* f, _ := fieldCache.LoadOrStore(t, typeFields(t)); return f
CachedTypeFieldsLoadOrStore(g) ==
    /\ Running(g) /\ TopOf(g).k = "cachedTypeFields" /\ TopOf(g).pc = "LoadOrStore"
    /\ \E r \in {MapLoadOrStore(fieldCache, TopOf(g).t, TopOf(g).fields)} :
         /\ fieldCache' = r.m
         /\ Return(g, RestOf(g), r.actual, funcs)
    /\ UNCHANGED encoderCache
    /\ ConcUnchanged

\* the indirect func: wg.Wait(); f(e, v).  A nil f panics
IndirectCall(g) ==
    /\ Running(g) /\ TopOf(g).k = "call" /\ TopOf(g).enc.k = "indirect"
    /\ funcs[TopOf(g).enc.id].done
    /\ IF funcs[TopOf(g).enc.id].f = NoFunc THEN GoOn(g, <<PanicFrame>>, funcs, gor[g].res)
       ELSE GoOn(g, RestOf(g) \o <<CallFrame(funcs[TopOf(g).enc.id].f, TopOf(g).v)>>, funcs,
               gor[g].res)
    /\ UNCHANGED <<encoderCache, fieldCache>>
    /\ ConcUnchanged

GoStep(g) ==
    \/ ReflectValue(g)
    \/ TypeEncoderLoadOrStore(g)
    \/ NewPtrEncoder(g)
    \/ WgDone(g)
    \/ TypeEncoderStore(g)
    \/ CachedTypeFieldsLoad(g)
    \/ TypeFieldsEncoder(g)
    \/ CachedTypeFieldsLoadOrStore(g)
    \/ IndirectCall(g)

NextConc == \E g \in 1..MaxGoroutines : GoStep(g)

SpecConc == InitConc /\ [][NextConc]_vars

\* the scheduler runs every goroutine that can run
SpecConcFair == SpecConc /\ \A g \in 1..MaxGoroutines : WF_vars(GoStep(g))

(***************************************************************************)
(* Claims about categories.                                                *)
(***************************************************************************)
\* the attributes of the category of the Set driver, and as they were
\* before the call
SetData == heap.datas[1]
SetData0 == SetHeap.datas[1]

\* the supplied attributes named as the category attribute cv
Supplied(cv) == {i \in DOMAIN attrs : attrs[i].Name = cv.Description}

\* no supplied attribute has another Type than the category attribute of
\* its name, NilType apart
NoMismatch ==
    \A k \in DOMAIN SetData0 : \A i \in Supplied(SetData0[k]) :
        attrs[i].Type = NilType \/ attrs[i].Type = SetData0[k].Type

\* the category attribute k has the Value of a supplied attribute of its
\* name, or its own when none was supplied; nothing else of it has changed
ValueSet(k) ==
    /\ [SetData[k] EXCEPT !.Value = 0] = [SetData0[k] EXCEPT !.Value = 0]
    /\ IF Supplied(SetData0[k]) = {} THEN SetData[k].Value = SetData0[k].Value
       ELSE \E i \in Supplied(SetData0[k]) : SetData[k].Value = attrs[i].Value

SetDone == phase = "set" /\ val # 0

\* C31: Set on a non-nil category, when no type mismatch occurs, returns nil
\* without panicking, gives every category attribute named by a supplied
\* attribute that attribute's Value, ignores the supplied attributes that
\* name no category attribute and leaves the other attributes unchanged
C31_SetStoresValues ==
    (SetDone /\ NoMismatch)
        => /\ cerr = NoErr
           /\ \A k \in DOMAIN SetData0 : ValueSet(k)
           /\ heap.lists = SetHeap.lists /\ heap.cats = SetHeap.cats

\* every supplied attribute names an attribute of the category
AllNamed == \A i \in DOMAIN attrs : \E k \in DOMAIN SetData0 : attrs[i].Name = SetData0[k].Description

\* ... which holds when every supplied attribute names a category attribute
C31_SetNamedValues ==
    (SetDone /\ NoMismatch /\ AllNamed)
        => /\ cerr = NoErr
           /\ \A k \in DOMAIN SetData0 : ValueSet(k)
           /\ heap.lists = SetHeap.lists /\ heap.cats = SetHeap.cats

\* ... and then a type mismatch returns the error and changes nothing
C31_SetMismatch ==
    (SetDone /\ ~NoMismatch /\ AllNamed)
        => cerr.kind = "invalid type attribute" /\ heap = SetHeap

\* Set("2", "1") has stored both values
C31_WitnessBoth ==
    /\ SetDone /\ Len(attrs) = 2 /\ attrs[1].Name = "2" /\ attrs[2].Name = "1"
    /\ cerr = NoErr /\ SetData[1].Value = attrs[2].Value /\ SetData[2].Value = attrs[1].Value

\* Set("x", "y") has panicked
C31_WitnessPanic ==
    /\ SetDone /\ Len(attrs) = 2 /\ attrs[1].Name = "x" /\ attrs[2].Name = "y"
    /\ cerr = Panic

\* Set("x", "1", "2") has returned nil and left attribute "1" as it was
C31_WitnessSkipped ==
    /\ SetDone /\ Len(attrs) = 3 /\ NoMismatch
    /\ attrs[1].Name = "x" /\ attrs[2].Name = "1" /\ attrs[3].Name = "2"
    /\ cerr = NoErr /\ SetData[1].Value = SetData0[1].Value

\* C32: a Find of a name returns the category as it was when it was stored
\* under that name, whatever was changed since through the category stored
\* or through a category that Find returned; Find of a name never stored
\* returns nil
C32_FindReturnsStored ==
    phase = "found"
        => IF src \in DOMAIN val THEN Deep(heap, dst) = val[src].deep ELSE dst = 0

\* ... which holds for all of the category but the elements of the lists of
\* its attributes
C32_FindButLists ==
    phase = "found"
        => IF src \in DOMAIN val THEN DeepButLists(heap, dst) = val[src].shallow ELSE dst = 0

\* Find has returned the category stored, after the name, the Data and an
\* attribute of the category were changed
C32_WitnessChanged ==
    /\ phase = "found" /\ src = "Name" /\ fed = 4 /\ dst # 0
    /\ heap.cats[1] # CacheHeap.cats[1] /\ Deep(heap, dst) = Deep(CacheHeap, 1)

\* Find has returned a category with the element written after the Store
C32_WitnessElem ==
    /\ phase = "found" /\ src = "Name" /\ src \in DOMAIN val
    /\ val[src].deep.Data[1].Value = <<7>>
    /\ Deep(heap, dst).Data[1].Value = <<8>>

\* Find has returned nil for a name that was not stored
C32_WitnessNil ==
    /\ phase = "found" /\ src = "Other" /\ "Name" \in DOMAIN val /\ dst = 0

(***************************************************************************)
(* Claims about the steps of the scanner.                                  *)
(***************************************************************************)
\* the index of the first scanError in the codes ops, 0 for none
RECURSIVE FirstErrorAt(_, _)
FirstErrorAt(ops, i) ==
    IF i > Len(ops) THEN 0
    ELSE IF ops[i] = scanError THEN i
    ELSE FirstErrorAt(ops, i + 1)

\* the codes the steps returned, without those of scan.eof()
StepOps == SubSeq(out, 1, fed)

\* C33: once a step has returned scanError, every later step and every
\* scan.eof() return scanError, and the scanner holds the SyntaxError it held
\* at that first scanError, until the scanner is reset
C33_ErrorLatches ==
    FirstErrorAt(StepOps, 1) # 0
        => /\ \A i \in FirstErrorAt(StepOps, 1)..Len(out) : out[i] = scanError
           /\ scan.err = cerr /\ cerr.kind = "syntax"
           /\ scan.step = "stateError"

\* the SyntaxError names the first invalid byte: no earlier step recorded an
\* error, unless it is the byte that follows the top-level value, which is
\* answered with scanEnd and reported by the next call
C33_FirstInvalidByte ==
    (FirstErrorAt(StepOps, 1) # 0 /\ cerr.msg # "after top-level value")
        => cerr.off = scan.bytes - fed + FirstErrorAt(StepOps, 1) /\ cerr.c = src[FirstErrorAt(StepOps, 1)]

\* two steps and an eof have returned scanError after the first one
C33_Witness ==
    /\ phase = "eof" /\ fed = 4 /\ FirstErrorAt(StepOps, 1) = 2 /\ Len(out) = 5
    /\ scan.err = cerr /\ cerr.off = 2

\* after the reset the scanner has accepted bytes again
C33_WitnessReset ==
    /\ phase = "again" /\ fed = 1 /\ out = <<scanBeginArray>> /\ scan.bytes > 2
    /\ scan.err = NoErr

\* scan.eof() was called once, after the whole text
AtEOF == phase \in {"eof", "eof again"} /\ fed = Len(src) /\ Len(out) = fed + 1

\* the text is white space, one complete value and white space
OneValue == val.complete /\ val.spaceAfter

\* C34: no step over a byte of the top-level value, or before it, returns
\* scanEnd; the step over the first byte after the value does; scan.eof()
\* after the text returns scanEnd, and Valid(text) is true, exactly when the
\* text is optional white space, one complete value and optional white space
C34_EndAfterValue ==
    /\ val.known
         => /\ \A i \in 1..fed : out[i] = scanEnd => (val.complete /\ i > val.last)
            /\ (val.complete /\ fed > val.last) => out[val.last + 1] = scanEnd
            /\ AtEOF => (out[fed + 1] = scanEnd) = OneValue
            /\ fed = 0 => Valid(src) = OneValue
    /\ AtEOF => (FirstErrorAt(out, 1) = 0) = Valid(src)

\* the first scanEnd came with the space after the 7 of " 7 7", and eof
\* returned scanError for the second value
C34_Witness ==
    /\ phase = "eof" /\ src = B(<<" ", "7", " ", "7">>) /\ val.last = 2 /\ AtEOF
    /\ out = <<scanSkipSpace, scanBeginLiteral, scanEnd, scanEnd, scanError>>

\* eof after {7}, without a byte after the value, returned scanEnd
C34_WitnessNoByteAfter ==
    /\ phase = "eof" /\ src = B(<<"{", "7", "}">>) /\ val.known /\ AtEOF
    /\ out = <<scanBeginArray, scanBeginLiteral, scanEndArray, scanEnd>>

\* the composites open after the codes ops from index i on, st those open
\* before: "object" for scanBeginObject, "array" for scanBeginArray; ok is
\* false when a scanEndObject or scanEndArray closes nothing or the other kind
RECURSIVE OpenKinds(_, _, _)
OpenKinds(ops, i, st) ==
    IF i > Len(ops) THEN [ok |-> TRUE, st |-> st]
    ELSE CASE ops[i] = scanBeginObject -> OpenKinds(ops, i + 1, Append(st, "object"))
           [] ops[i] = scanBeginArray -> OpenKinds(ops, i + 1, Append(st, "array"))
           [] ops[i] \in {scanEndObject, scanEndArray} ->
                IF st = <<>> \/ st[Len(st)] # (IF ops[i] = scanEndObject THEN "object" ELSE "array")
                THEN [ok |-> FALSE, st |-> st]
                ELSE OpenKinds(ops, i + 1, SubSeq(st, 1, Len(st) - 1))
           [] OTHER -> OpenKinds(ops, i + 1, st)

\* the parse stack holds one entry for each composite of kinds, of its kind
StackOf(kinds) ==
    /\ Len(scan.parseState) = Len(kinds)
    /\ \A i \in 1..Len(kinds) : (scan.parseState[i] = parseArrayValue) = (kinds[i] = "array")

\* C35: after every step the depth of the parse stack is the number of
\* scanBeginObject and scanBeginArray returned minus the number of
\* scanEndObject and scanEndArray; scanEndArray was returned only with an
\* array innermost and scanEndObject only with an object innermost; and
\* endTop is set only with an empty stack
C35_StackMatchesCodes ==
    /\ OpenKinds(StepOps, 1, <<>>).ok
    /\ StackOf(OpenKinds(StepOps, 1, <<>>).st)
    /\ scan.endTop => scan.parseState = <<>>

\* the object inside the array {A<1,?,'a'={7}>,?} was closed, the array is
\* open
C35_Witness ==
    /\ phase = "step" /\ Len(src) = 17 /\ fed = 15 /\ out[15] = scanEndObject
    /\ out[1] = scanBeginArray /\ out[2] = scanBeginObject /\ out[12] = scanBeginArray
    /\ scan.parseState = <<parseArrayValue>> /\ ~scan.endTop

(***************************************************************************)
(* Claims about decoding into destinations of many types, checked under    *)
(* SpecDest.                                                               *)
(***************************************************************************)
\* the type has a map with integer keys in it
RECURSIVE HasIntKeys(_)
HasIntKeys(t) ==
    CASE t.k = "map" -> t.key.k \in {"int", "uint"} \/ HasIntKeys(t.elem)
      [] t.k \in {"slice", "array", "ptr"} -> HasIntKeys(t.elem)
      [] t.k = "struct" -> \E i \in 1..Len(t.fields) : HasIntKeys(t.fields[i].typ)
      [] OTHER -> FALSE

\* C36 as stated: for every input that Valid accepts and every destination,
\* Unmarshal never returns the error "decoder out of sync" (errPhase).
C36_NoPhaseError ==
    phase = "decoded" /\ Valid(src) => cerr # errPhase

\* what the decoder does: errPhase is returned for a valid input only when
\* the input has an E-literal or the destination has a map with integer keys
C36_PhaseErrorCauses ==
    phase = "decoded" /\ Valid(src) /\ cerr = errPhase =>
        HasErrorLiteral \/ HasIntKeys(dst0.t)

\* {A<1,?,'x'=7,'2'=8>} was decoded into a []map[int8]int8: errPhase
C36_WitnessIntKeys ==
    /\ phase = "decoded" /\ src = B(<<"{">>) \o TwoKeyText(B(<<"x">>), B(<<"2">>)) \o B(<<"}">>)
    /\ dst0 = NilSlice(MapT(IntT(8), IntT(8))) /\ cerr = errPhase

\* E7 was decoded into an int: errPhase
C36_WitnessErrorLiteral ==
    phase = "decoded" /\ src = B(<<"E", "7">>) /\ dst0 = Seven /\ cerr = errPhase

\* every document of the driver is valid, and errPhase is not the only error
C36_WitnessOtherError ==
    phase = "decoded" /\ Valid(src) /\ cerr \notin {NoErr, errPhase}

\* the literal is E followed by decimal digits
ELiteral(s) == Len(s) >= 2 /\ s[1] = Ord["E"] /\ \A i \in 2..Len(s) : IsDigit(s[i])

\* the number that the decimal digits of s stand for
RECURSIVE Decimal(_)
Decimal(s) == IF s = <<>> THEN 0 ELSE 10 * Decimal(SubSeq(s, 1, Len(s) - 1)) + (s[Len(s)] - Ord["0"])

\* a literal was decoded into a destination of type Error
ErrorCase == phase = "decoded" /\ dst0.t = ErrorT /\ src \in DestLiterals

\* C37 as stated: decoding into an Error stores n exactly when the literal is
\* E followed by the decimal digits of n, leaves the destination unchanged
\* for ?, and for every other literal returns an error and leaves the
\* destination unchanged.
C37_ErrorDestination ==
    ErrorCase =>
        IF ELiteral(src) THEN cerr = NoErr /\ dst = ErrorV(Decimal(Tail(src)))
        ELSE IF src = B(<<"?">>) THEN cerr = NoErr /\ dst = dst0
        ELSE cerr # NoErr /\ dst = dst0

\* s without its first byte is a decimal number with an optional sign
NumberBehindFirst(s) ==
    LET r == IF Len(s) >= 2 /\ s[2] \in {Ord["-"], Ord["+"]} THEN SubSeq(s, 3, Len(s)) ELSE Tail(s)
    IN r # <<>> /\ \A i \in 1..Len(r) : IsDigit(r[i])
NumberBehindFirstOf(s) ==
    IF s[2] = Ord["-"] THEN 0 - Decimal(SubSeq(s, 3, Len(s)))
    ELSE IF s[2] = Ord["+"] THEN Decimal(SubSeq(s, 3, Len(s)))
    ELSE Decimal(Tail(s))

\* what the decoder does: the first byte of the literal is not looked at; a
\* literal other than ? whose bytes behind the first are a decimal number is
\* stored as that number, whatever its kind, and every other literal but ?
\* returns an error and leaves the destination unchanged
C37_ErrorButFirstByte ==
    ErrorCase =>
        IF src = B(<<"?">>) THEN cerr = NoErr /\ dst = dst0
        ELSE IF NumberBehindFirst(src) THEN cerr = NoErr /\ dst = ErrorV(NumberBehindFirstOf(src))
        ELSE cerr = ErrorTypeError /\ dst = dst0

\* the integer 17 was decoded into an Error that held 3: it holds 7, no error
C37_WitnessInteger ==
    /\ phase = "decoded" /\ src = B(<<"1", "7">>) /\ dst0 = ErrorV(3)
    /\ dst = ErrorV(7) /\ cerr = NoErr

\* E300 was decoded into an Error that held 3
C37_WitnessStored ==
    phase = "decoded" /\ src = B(<<"E", "3", "0", "0">>) /\ dst0 = ErrorV(3) /\ dst = ErrorV(300)

\* a string was refused
C37_WitnessRefused ==
    /\ phase = "decoded" /\ src = B(<<"'", "1", "'">>) /\ dst0 = ErrorV(3)
    /\ dst = dst0 /\ cerr = ErrorTypeError

(***************************************************************************)
(* Claims about the caches under concurrency, checked under SpecConc and   *)
(* SpecConcFair.                                                           *)
(***************************************************************************)
Goroutines == 1..MaxGoroutines
GoTypes == {"int", "interface{}", "T", "*T", "A", "*A", "B", "*B"}

\* the closures that LoadOrStore stored for the type t: the calls of
\* typeEncoder that build the encoder of t
Builders(t) == {id \in 1..Len(funcs) : funcs[id].t = t}
OneBuilder == \A t \in GoTypes : Cardinality(Builders(t)) <= 1

\* goroutine g is inside newTypeEncoder
Building(g) == \E i \in 1..Len(gor[g].stack) : gor[g].stack[i].k = "typeEncoder"
\* goroutine g is at wg.Wait() of the indirect func
AtPlaceholder(g) == Running(g) /\ TopOf(g).k = "call" /\ TopOf(g).enc.k = "indirect"
NoWaitWhileBuilding ==
    \A g \in Goroutines :
        /\ AtPlaceholder(g) =>
             ~Building(g) /\ (funcs[TopOf(g).enc.id].g = g => funcs[TopOf(g).enc.id].done)
        /\ Running(g) => TopOf(g) # PanicFrame

\* the encoder of its type, complete: no indirect func, and of the kind that
\* newTypeEncoder returns for the type
RealEncoder(t, fn) ==
    fn.k = (CASE GoKind(t) = "int" -> "intEncoder"
              [] GoKind(t) = "iface" -> "interfaceEncoder"
              [] GoKind(t) = "ptr" -> "ptrEncoder"
              [] GoKind(t) = "struct" -> "structEncoder")
\* once wg is done the indirect func calls the encoder that the builder
\* installs in the cache
PlaceholderRunsReal ==
    /\ \A id \in 1..Len(funcs) : funcs[id].done => RealEncoder(funcs[id].t, funcs[id].f)
    /\ \A t \in DOMAIN encoderCache :
         \E id \in Builders(t) :
            \/ encoderCache[t] = indirectFunc(id)
            \/ funcs[id].done /\ encoderCache[t] = funcs[id].f

SameOutput ==
    \A g \in Goroutines :
        /\ ~Running(g) => gor[g].buf = gor[g].job.want
        /\ Running(g) =>
             \E i \in 0..Len(gor[g].job.want) : gor[g].buf = SubSeq(gor[g].job.want, 1, i)

AllReturned == \A g \in Goroutines : ~Running(g)

ConcSafe == OneBuilder /\ NoWaitWhileBuilding /\ PlaceholderRunsReal /\ SameOutput

\* C38: with goroutines that marshal values of recursive types for the first
\* time together, at most one goroutine builds the encoder of a type, no
\* goroutine waits at an indirect func while it builds an encoder, a call
\* through an indirect func runs the real encoder once wg is done, and every
\* call of Marshal returns, with the output of a sequential call.
C38_ConcurrentEncoders == []ConcSafe /\ <>[]AllReturned

\* a goroutine waits at the indirect func of a type that another goroutine is
\* building
C38_Witness ==
    \E g \in Goroutines :
        /\ AtPlaceholder(g) /\ ~funcs[TopOf(g).enc.id].done
        /\ funcs[TopOf(g).enc.id].g # g
        /\ gor[g].job.k = "Marshal"

\* both goroutines have marshalled a list through the indirect func of T
C38_WitnessReturned ==
    /\ AllReturned
    /\ \A g \in Goroutines :
         /\ gor[g].job.k = "Marshal" /\ gor[g].job.v = ListValue
         /\ gor[g].buf = B(<<"A", "<", "1", ",", "?", ",", "'", "V", "'", "=", "1", ",", "'", "N",
                             "'", "=", "A", "<", "1", ",", "?", ",", "'", "V", "'", "=", "2", ",",
                             "'", "N", "'", "=", "?", ">", ">">>)
    /\ encoderCache["*T"].elemEnc.k = "indirect"

\* the names of a list of fields, in order
FieldNames(fields) == [i \in DOMAIN fields |-> fields[i].name]
\* goroutine g called cachedTypeFields and the call has returned
FieldsReturned(g) == gor[g].job.k = "cachedTypeFields" /\ ~Running(g)
\* the frame of goroutine g on top has computed typeFields(t) and is at
\* fieldCache.LoadOrStore
AtFieldsLoadOrStore(g) ==
    Running(g) /\ TopOf(g).k = "cachedTypeFields" /\ TopOf(g).pc = "LoadOrStore"

\* C39: every call of cachedTypeFields(t), whatever the other goroutines do
\* and whether the cache holds t or not, returns the fields of t in the order
\* of typeFields; the list it returns is the list published in fieldCache,
\* which is the same for every call, at every later time, and the list in
\* every struct encoder.
C39_FieldsStable ==
    /\ \A t \in DOMAIN fieldCache : FieldNames(fieldCache[t]) = FieldNames(GoFields(t))
    /\ \A g \in Goroutines :
         /\ FieldsReturned(g) =>
              gor[g].job.t \in DOMAIN fieldCache /\ gor[g].res = fieldCache[gor[g].job.t]
         /\ AtFieldsLoadOrStore(g) => FieldNames(TopOf(g).fields) = FieldNames(GoFields(TopOf(g).t))
    /\ \A id \in 1..Len(funcs) :
         funcs[id].f.k = "structEncoder" =>
            funcs[id].t \in DOMAIN fieldCache /\ funcs[id].f.fields = fieldCache[funcs[id].t]

\* a call has returned the published list of a type while another goroutine
\* has computed a list for the type with another encoder in it
C39_Witness ==
    \E g, h \in Goroutines :
        /\ FieldsReturned(g) /\ AtFieldsLoadOrStore(h) /\ TopOf(h).t = gor[g].job.t
        /\ TopOf(h).fields # gor[g].res
        /\ gor[g].res = fieldCache[gor[g].job.t]

\* both goroutines called cachedTypeFields(B) and have the same list
C39_WitnessBoth ==
    /\ \A g \in Goroutines : FieldsReturned(g) /\ gor[g].job.t = "B" /\ gor[g].res = fieldCache["B"]
    /\ Len(fieldCache["B"]) = 2

(***************************************************************************)
(* Claim about an Encode call whose value has no encoding, checked under   *)
(* SpecEncode.                                                             *)
(***************************************************************************)
\* the encoding of v fails: its type or value has no encoding, or a hook
\* returns an error or a text that is no Oscript
EncodingFails(v) ==
    \/ v \in {ChanV, Inf(64, FALSE)}
    \/ v.t = MarshalerT /\ (v.err # NoErr \/ ~Valid(v.b))
    \/ v.t.k = "slice" /\ \E i \in 1..Len(v.e) : v.e[i] = IfaceV(ChanV)

\* the error of the encoding of v
EncodingError(v) ==
    CASE v.t = MarshalerT -> Err("MarshalerError")
      [] v.t.k = "float" -> Err("UnsupportedValueError")
      [] OTHER -> Err("UnsupportedTypeError")

\* C40: an Encode call for a value whose encoding fails, made with no error
\* of the sink latched, writes no byte to the sink, leaves the Encoder as it
\* was and returns the error of the encoding.
C40_FailedEncodeWritesNothing ==
    [][fed' = fed + 1 /\ enc.err = NoErr /\ EncodingFails(val') =>
          /\ enc' = enc
          /\ cerr'.kind = EncodingError(val').kind
          /\ \E mk \in MapKeysOrders(val') : cerr' = Marshal(val', mk).err]_vars

\* after 7 and a new line were written, a call for the array {7, chan}
\* returned the error and the sink holds what it held
C40_Witness ==
    /\ phase = "stream" /\ enc # NoStream /\ fed = 2 /\ enc.enabledEncodeNL
    /\ val = SliceV(IfaceT, <<IfaceV(Seven), IfaceV(ChanV)>>)
    /\ cerr = Err("UnsupportedTypeError") /\ enc.err = NoErr
    /\ enc.w.data = B(<<"7", "\n">>)

\* a call for a Marshaler whose hook returned an error returned that error
C40_WitnessHook ==
    /\ phase = "stream" /\ enc # NoStream /\ fed = 1
    /\ val = MarshalerV(<<>>, ErrHook) /\ cerr = MarshalerError(ErrHook)
    /\ enc.w.data = <<>> /\ enc.err = NoErr

====
